---- MODULE Spec2Model ----
(***************************************************************************)
(* mosalloc-rs: the in-process memory-region manager (libmosalloc).        *)
(*                                                                         *)
(* The model follows src/libmosalloc/src/region.rs (Region, its free_map,  *)
(* alloc_range / free_range and the two free-map helpers) and              *)
(* src/libmosalloc/src/allocator.rs (Allocator::mmap / munmap and the      *)
(* dispatch helpers).  Addresses and lengths are bytes; usize is modelled  *)
(* as an unsigned integer of UsizeBits bits, and every subtraction or      *)
(* addition of the source that can leave that range is modelled with the   *)
(* two outcomes rustc produces: a panic when overflow checks are compiled  *)
(* in (the default of a debug build), a wrap modulo 2^UsizeBits otherwise  *)
(* (the default of a release build).                                       *)
(***************************************************************************)
EXTENDS Integers, Sequences, FiniteSets, TLC

VARIABLES
    overflow_checks,  \* build profile: TRUE = arithmetic overflow panics
    regions,          \* Allocator.{heap, anon_region, file_region}
    drained,          \* Allocator.drained
    aborted,          \* the process has panicked (assert! / overflow check)
    errno,            \* *libc::__errno_location()
    held,             \* history (SpecRegion): the pages a successful alloc_range
                      \* handed out and free_range has not yet taken back
    boot,             \* Allocator::new: the memory map being scanned, the
                      \* locals of the scan and the real program break
    thr               \* the threads contending for a lock: their positions
                      \* in lock()/unlock() and the lock's atomic word

vars == <<overflow_checks, regions, drained, aborted, errno, held, boot, thr>>

\* outside the bootstrap specification the scan is over, and outside the
\* lock specifications there is one thread
NoBoot == [built |-> TRUE]

NoThreads == "none"

----------------------------------------------------------------------------
(* Program constants *)

PAGE_SIZE == 4096

\* errno values (libc); NOERR is the cleared errno
NOERR == "0"

ENOMEM == "ENOMEM"

EEXIST == "EEXIST"

EINVAL == "EINVAL"

\* whatever errno a failing real syscall leaves
KERNEL_ERRNO == "kernel"

(* Bounds of the model *)

\* width of usize in the model (64 in the program)
UsizeBits == 20

\* length of the anon region's plan, in base pages
AnonPages == 3

\* length of the file region's plan, in base pages
FilePages == 1

\* length of the heap's plan, in base pages
HeapPages == 1

\* the longest free_map the model follows (the Vec itself is unbounded)
MaxRanges == 2

\* length of the heap's plan, in base pages, where brk and sbrk are followed
BrkHeapPages == 3

\* base pages in the huge page of the model (512 for a 2 MiB page)
HugeFactor == 2

\* length of the file region's plan, in base pages, where file mappings are
\* followed
MappedFilePages == 3

\* the memory map of the bootstrap: the page of the stack mapping, the
\* number of lines below it, and the gap between the stack and the mapping
\* that may follow it, in base pages
BootPages == 10

BootLines == 2

TailGapPages == 8

UsizeModulus == 2 ^ UsizeBits

USIZE_MAX == UsizeModulus - 1

MAP_FAILED == USIZE_MAX

BRK == "BRK"

ANON == "ANON"

FILE == "FILE"

AllocType == {BRK, ANON, FILE}

MAP_FIXED == "MAP_FIXED"

MAP_FIXED_NOREPLACE == "MAP_FIXED_NOREPLACE"

\* A flag word is the set of its bits.  MAP_SHARED is bit 0x01 and
\* MAP_PRIVATE bit 0x02; MAP_SHARED_VALIDATE is 0x03, both bits.
MAP_SHARED == "MAP_SHARED"

MAP_PRIVATE == "MAP_PRIVATE"

MAP_SHARED_VALIDATE == {MAP_SHARED, MAP_PRIVATE}

MAP_GROWSDOWN == "MAP_GROWSDOWN"

MAP_HUGETLB == "MAP_HUGETLB"

\* MAP_SHARED | MAP_SHARED_VALIDATE | MAP_GROWSDOWN | MAP_HUGETLB
NONSTD_FLAGS ==
    {MAP_SHARED} \cup MAP_SHARED_VALIDATE \cup {MAP_GROWSDOWN, MAP_HUGETLB}

----------------------------------------------------------------------------
(* utils/misc.rs *)

align(n, m, up) ==
    LET ret == n - (n % m)
    IN  IF up /\ ret # n THEN ret + m ELSE ret

align_up(n, m) == align(n, m, TRUE)

align_down(n, m) == align(n, m, FALSE)

----------------------------------------------------------------------------
(* std::ops::Range<usize> *)

Range(s, e) == [start |-> s, end |-> e]

\* ExactSizeIterator::len of a Range: 0 when start >= end
RangeLen(x) == IF x.start < x.end THEN x.end - x.start ELSE 0

RangeContains(x, a) == x.start <= a /\ a < x.end

\* Vec::remove / Vec::insert (indices from 1)
VecRemove(v, i) == SubSeq(v, 1, i - 1) \o SubSeq(v, i + 1, Len(v))

VecInsert(v, i, e) == SubSeq(v, 1, i - 1) \o <<e>> \o SubSeq(v, i, Len(v))

----------------------------------------------------------------------------
(* region.rs: the free-map helpers *)

\* One evaluation of the closure of line 172 on range x:
\*   (start == 0 || x.contains(&start)) && (x.len() - start) >= len
\* "panic" when x.len() - start underflows with overflow checks on,
\* otherwise the subtraction wraps.
position_pred(x, start, len, oc) ==
    IF ~(start = 0 \/ RangeContains(x, start)) THEN "false"
    ELSE IF RangeLen(x) >= start
         THEN (IF RangeLen(x) - start >= len THEN "true" ELSE "false")
         ELSE IF oc THEN "panic"
              ELSE (IF RangeLen(x) - start + UsizeModulus >= len
                    THEN "true" ELSE "false")

\* Iterator::position from index i on: the first index whose closure is true,
\* 0 for None, -1 when a closure evaluation panicked first.
RECURSIVE position_from(_, _, _, _, _)
position_from(fm, i, start, len, oc) ==
    IF i > Len(fm) THEN 0
    ELSE LET p == position_pred(fm[i], start, len, oc)
         IN  IF p = "panic" THEN -1
             ELSE IF p = "true" THEN i
             ELSE position_from(fm, i + 1, start, len, oc)

\* A faulty take: lines 208-212 answer range_start whatever the hint was.
del_range_returns_range_start(fm, start, len, oc) ==
    LET ridx == position_from(fm, 1, start, len, oc)
    IN  IF ridx = -1 THEN [panic |-> TRUE, ret |-> USIZE_MAX, fm |-> fm]
        ELSE IF ridx = 0 THEN [panic |-> FALSE, ret |-> USIZE_MAX, fm |-> fm]
        ELSE
          LET x == fm[ridx]
              fm2 == IF RangeLen(x) = len
                       THEN VecRemove(fm, ridx)
                     ELSE IF start = 0 \/ start = x.start
                       THEN [fm EXCEPT ![ridx].start = x.start + len]
                     ELSE VecInsert([fm EXCEPT ![ridx].end = start],
                                    ridx + 1, Range(start + len, x.end))
          IN  [panic |-> FALSE, ret |-> x.start, fm |-> fm2]

\* Region::del_range_from_freemap ("take"): [panic, ret, fm]
del_range_from_freemap(fm, start, len, oc) ==
    LET ridx == position_from(fm, 1, start, len, oc)
    IN  IF ridx = -1 THEN [panic |-> TRUE, ret |-> USIZE_MAX, fm |-> fm]
        ELSE IF ridx = 0 THEN [panic |-> FALSE, ret |-> USIZE_MAX, fm |-> fm]
        ELSE
          LET x == fm[ridx]
              range_start == x.start
              fm2 == IF RangeLen(x) = len
                       THEN VecRemove(fm, ridx)
                     ELSE IF start = 0 \/ start = x.start
                       THEN [fm EXCEPT ![ridx].start = x.start + len]
                     ELSE VecInsert([fm EXCEPT ![ridx].end = start],
                                    ridx + 1, Range(start + len, x.end))
          IN  [panic |-> FALSE,
               ret   |-> IF start = 0 THEN range_start ELSE start,
               fm    |-> fm2]

\* first index i with fm[i].start >= end, Len(fm)+1 when there is none
RECURSIVE insert_position(_, _, _)
insert_position(fm, i, end) ==
    IF i > Len(fm) THEN Len(fm) + 1
    ELSE IF fm[i].start >= end THEN i
    ELSE insert_position(fm, i + 1, end)

\* Region::add_range_to_freemap ("give")
add_range_to_freemap(fm, start, len) ==
    LET end == start + len
    IN  IF Len(fm) = 0 THEN <<Range(start, end)>>
        ELSE
          LET idx   == insert_position(fm, 1, end)
              left  == idx > 1 /\ fm[idx - 1].end = start
              fm1   == IF left THEN [fm EXCEPT ![idx - 1].end = end] ELSE fm
              right == idx <= Len(fm1) /\ fm1[idx].start = end
              fm2   == IF right THEN [fm1 EXCEPT ![idx].start = start] ELSE fm1
          IN  IF left /\ right
                THEN VecRemove([fm2 EXCEPT ![idx - 1].end = fm2[idx].end], idx)
              ELSE IF ~left /\ ~right
                THEN VecInsert(fm2, idx, Range(start, end))
              ELSE fm2

----------------------------------------------------------------------------
(* region.rs: Region *)

\* Region::init applied to a Region::new of plan length len
Region_init(kind, start, len) ==
    [alloc_type |-> kind,
     start      |-> start,
     end        |-> start,
     max        |-> start + len,
     free_map   |-> <<Range(start, start + len)>>,
     lock       |-> TRUE]

Region_contains(r, addr) == addr >= r.start /\ addr < r.max

\* The assert! of lines 120-123, evaluated with start = usize::MAX:
\*   free_map.iter().all(|x| !x.contains(&start) && !x.contains(&(start + len)))
\* TRUE when the assertion (or the overflow check on start + len) panics.
fixed_assert_panics(fm, len, oc) ==
    LET start    == USIZE_MAX
        overflow == start + len > USIZE_MAX
        sum      == (start + len) % UsizeModulus
    IN  \E i \in 1..Len(fm) :
            \/ RangeContains(fm[i], start)
            \/ (overflow /\ oc)
            \/ RangeContains(fm[i], sum)

\* Region::alloc_range: [panic, ret, r].  The backing loop of lines 144-150
\* changes no field of the Region.
alloc_range(r, addr, len0, flags, oc) ==
    LET len  == align_up(len0, PAGE_SIZE)
        d1   == del_range_from_freemap(r.free_map, addr, len, oc)
        done(d) ==
            LET end == d.ret + len
            IN  [panic |-> FALSE, ret |-> d.ret,
                 r |-> [r EXCEPT !.free_map = d.fm,
                                 !.end = IF end > r.end THEN end ELSE r.end]]
    IN  IF d1.panic THEN [panic |-> TRUE, ret |-> USIZE_MAX, r |-> r]
        ELSE IF d1.ret # USIZE_MAX THEN done(d1)
        ELSE IF MAP_FIXED_NOREPLACE \in flags
          THEN [panic |-> FALSE, ret |-> USIZE_MAX, r |-> r]
        ELSE IF MAP_FIXED \in flags
          THEN IF fixed_assert_panics(r.free_map, len, oc)
                 THEN [panic |-> TRUE, ret |-> USIZE_MAX, r |-> r]
                 ELSE [panic |-> FALSE, ret |-> addr, r |-> r]
        ELSE LET d2 == del_range_from_freemap(r.free_map, 0, len, oc)
             IN  IF d2.panic THEN [panic |-> TRUE, ret |-> USIZE_MAX, r |-> r]
                 ELSE IF d2.ret = USIZE_MAX
                   THEN [panic |-> FALSE, ret |-> USIZE_MAX, r |-> r]
                 ELSE done(d2)

\* Region::free_range
free_range(r, start, len0) ==
    LET len == align_up(len0, PAGE_SIZE)
        fm  == add_range_to_freemap(r.free_map, start, len)
    IN  [r EXCEPT !.free_map = fm,
                  !.end = IF r.end = start + len
                            THEN (IF Len(fm) > 0 THEN fm[Len(fm)].start
                                  ELSE r.start)
                            ELSE r.end]

----------------------------------------------------------------------------
(* region.rs: the page-size plan of a Region and the backing of a range *)

\* utils/htlb.rs Interval
Interval(pagesz, start, end) == [pagesz |-> pagesz, start |-> start, end |-> end]

RECURSIVE PoolFold(_, _, _, _)
PoolFold(pool, i, pgsz, end) ==
    IF i > Len(pool) THEN [max_pgsz |-> pgsz, len |-> end]
    ELSE PoolFold(pool, i + 1,
                  IF pool[i].pagesz > pgsz THEN pool[i].pagesz ELSE pgsz,
                  IF pool[i].end > end THEN pool[i].end ELSE end)

\* Region::new followed by Region::init: len and max_pgsz are folded from
\* the pool's intervals
Region_new(kind, pool, start) ==
    LET f == PoolFold(pool, 1, 0, 0)
    IN  [alloc_type |-> kind,
         pool       |-> pool,
         start      |-> start,
         end        |-> start,
         max        |-> start + f.len,
         max_pgsz   |-> f.max_pgsz,
         free_map   |-> <<Range(start, start + f.len)>>,
         lock       |-> TRUE]

\* the find_map of Region::get_addr_pagesz from interval i on
RECURSIVE find_pagesz(_, _, _)
find_pagesz(pool, i, offset) ==
    IF i > Len(pool) THEN PAGE_SIZE
    ELSE IF pool[i].start <= offset /\ pool[i].end >= offset THEN pool[i].pagesz
    ELSE find_pagesz(pool, i + 1, offset)

\* Region::get_addr_pagesz
get_addr_pagesz(r, addr) == find_pagesz(r.pool, 1, addr - r.start)

\* The loop of Region::alloc_range, lines 144-150, from cursor cur: the
\* sequence of the real mmaps that Region::alloc issues, each at
\* align_down(cur, pagesz) and pagesz long.
RECURSIVE backing(_, _, _)
backing(r, cur, end) ==
    IF ~(cur < end) THEN <<>>
    ELSE LET pagesz == get_addr_pagesz(r, cur)
             at     == align_down(cur, pagesz)
         IN  <<[addr |-> at, pagesz |-> pagesz]>> \o backing(r, at + pagesz, end)

\* The tail of Region::alloc_range, lines 139-150, for a range reserved at
\* start: a FILE region returns before the loop and maps nothing.
alloc_range_backing(r, start, end) ==
    IF r.alloc_type = FILE THEN <<>> ELSE backing(r, start, end)

\* the backing mmaps one call of Region::alloc_range requests: none when it
\* fails or panics, none when it returns at line 124 (MAP_FIXED after a
\* failed take, which leaves free_map as it was), the loop's otherwise
alloc_range_tiles(r, addr, len0, flags, oc) ==
    LET a == alloc_range(r, addr, len0, flags, oc)
    IN  IF a.panic \/ a.ret = USIZE_MAX \/ a.r.free_map = r.free_map THEN <<>>
        ELSE alloc_range_backing(a.r, a.ret, a.ret + align_up(len0, PAGE_SIZE))

----------------------------------------------------------------------------
(* allocator.rs: Allocator *)

\* an address the kernel may pick for a forwarded mmap: outside every region
LibcAddr(rs) == rs[FILE].max + PAGE_SIZE

\* Allocator::region_from_addr: the AllocType, "none", or "panic" for the
\* assert!(!self.heap.contains(addr)) of line 188
region_from_addr(rs, addr) ==
    IF Region_contains(rs[BRK], addr) THEN "panic"
    ELSE IF Region_contains(rs[ANON], addr) THEN ANON
    ELSE IF Region_contains(rs[FILE], addr) THEN FILE
    ELSE "none"

region_from_fd(fd) == IF fd = -1 THEN ANON ELSE FILE

region_from_req(rs, addr, fd) ==
    IF addr = 0 THEN region_from_fd(fd) ELSE region_from_addr(rs, addr)

\* the base pages of [a, a + len), a and len page-aligned
Span(a, len) == {a + i * PAGE_SIZE : i \in 0..((len \div PAGE_SIZE) - 1)}

\* What one interposed call does: whether it panicked, its return value,
\* and the errno and the regions it leaves.
Outcome(ab, ret, en, rs) ==
    [aborted |-> ab, ret |-> ret, errno |-> en, regions |-> rs]

\* preload_hooks::libc_mmap: the real mmap, which changes no Region.  With a
\* fixed address it returns that address or fails; otherwise the kernel may
\* also place the mapping elsewhere.
libc_mmap(rs, en, addr, flags) ==
    {Outcome(FALSE, MAP_FAILED, KERNEL_ERRNO, rs)}
    \cup (IF addr # 0 THEN {Outcome(FALSE, addr, en, rs)} ELSE {})
    \cup (IF flags \cap {MAP_FIXED, MAP_FIXED_NOREPLACE} = {}
            THEN {Outcome(FALSE, LibcAddr(rs), en, rs)} ELSE {})

\* the flags Allocator::mmap hands to the real mmap that follows a
\* reservation in the file region (lines 272-275): the caller's
file_mmap_flags(flags) == flags

\* Allocator::mmap: the set of outcomes of one call made in state
\* (rs, dr, en) of a build with overflow checks oc.  Empty when the call
\* spins forever on a held region lock.
mmap(rs, dr, oc, en, addr, len, flags, fd) ==
    LET k == region_from_req(rs, addr, fd)
    IN  IF k = "panic" THEN {Outcome(TRUE, MAP_FAILED, en, rs)}
        ELSE IF k = "none" THEN libc_mmap(rs, en, addr, flags)
        ELSE IF ~dr /\ k = ANON THEN {Outcome(FALSE, MAP_FAILED, ENOMEM, rs)}
        ELSE IF k = ANON /\ flags \cap NONSTD_FLAGS # {}
          THEN libc_mmap(rs, en, addr, flags)
        ELSE IF ~(addr = 0 \/ addr + len <= rs[k].max)
          THEN {Outcome(TRUE, MAP_FAILED, en, rs)}
        ELSE IF ~rs[k].lock THEN {}
        ELSE
          LET a == alloc_range(rs[k], addr, len, flags, oc)
              rs2 == [rs EXCEPT ![k] = a.r]
          IN  IF a.panic
                THEN {Outcome(TRUE, MAP_FAILED, en, [rs EXCEPT ![k].lock = FALSE])}
              ELSE IF a.ret = USIZE_MAX
                THEN {Outcome(FALSE, MAP_FAILED,
                            IF MAP_FIXED_NOREPLACE \in flags THEN EEXIST
                            ELSE ENOMEM, rs2)}
              ELSE IF k = FILE
                THEN libc_mmap(rs2, en, a.ret, file_mmap_flags(flags))
              ELSE {Outcome(FALSE, a.ret, en, rs2)}

\* preload_hooks::libc_munmap: 0, or -1 with the kernel's errno
libc_munmap(rs, en) ==
    {Outcome(FALSE, 0, en, rs), Outcome(FALSE, -1, KERNEL_ERRNO, rs)}

\* Allocator::munmap
munmap(rs, oc, en, addr, len) ==
    LET k == region_from_addr(rs, addr)
    IN  IF k = "panic" THEN {Outcome(TRUE, -1, en, rs)}
        ELSE IF k = "none" THEN libc_munmap(rs, en)
        ELSE IF ~(addr + len <= rs[k].max) THEN {Outcome(TRUE, -1, en, rs)}
        ELSE IF ~rs[k].lock THEN {}
        ELSE
          LET rs2 == [rs EXCEPT ![k] = free_range(rs[k], addr, len)]
          IN  IF k = FILE THEN libc_munmap(rs2, en)
              ELSE {Outcome(FALSE, 0, en, rs2)}

\* isize of the model: the signed integers of UsizeBits bits
ISIZE_MIN == -(UsizeModulus \div 2)

\* usize::checked_add_signed: -1 stands for None
checked_add_signed(a, incr) ==
    IF a + incr < 0 \/ a + incr > USIZE_MAX THEN -1 ELSE a + incr

\* Allocator::do_brk: the set of outcomes of one call; by_addr tells whether
\* addr (brk) or incr (sbrk) was given.  Empty when the call spins forever
\* on a held heap lock.  A panic after heap.lock() leaves the lock held.
do_brk(rs, dr, oc, en, by_addr, addr, incr) ==
    LET heap   == rs[BRK]
        oldbrk == heap.end
        newbrk == IF by_addr THEN addr ELSE checked_add_signed(oldbrk, incr)
        locked == [rs EXCEPT ![BRK].lock = FALSE]
    IN  IF ~dr THEN {Outcome(FALSE, USIZE_MAX, ENOMEM, rs)}
        ELSE IF ~heap.lock THEN {}
        ELSE IF newbrk = -1 THEN {Outcome(TRUE, USIZE_MAX, en, locked)}
        ELSE IF ~Region_contains(heap, newbrk)
          THEN {Outcome(FALSE, USIZE_MAX, ENOMEM, rs)}
        ELSE IF newbrk > oldbrk
          THEN LET a == alloc_range(heap, oldbrk, newbrk - oldbrk, {}, oc)
               IN  IF a.panic THEN {Outcome(TRUE, USIZE_MAX, en, locked)}
                   ELSE {Outcome(FALSE, oldbrk, en, [rs EXCEPT ![BRK] = a.r])}
        ELSE IF newbrk < oldbrk
          THEN {Outcome(FALSE, oldbrk, en,
                        [rs EXCEPT ![BRK] = free_range(heap, newbrk, oldbrk - newbrk)])}
        ELSE {Outcome(FALSE, oldbrk, en, rs)}

\* Allocator::brk: -1 when do_brk answers usize::MAX, else 0
brk(rs, dr, oc, en, addr) ==
    {[o EXCEPT !.ret = IF o.ret = USIZE_MAX THEN -1 ELSE 0] :
        o \in do_brk(rs, dr, oc, en, TRUE, addr, 0)}

\* Allocator::sbrk
sbrk(rs, dr, oc, en, incr) == do_brk(rs, dr, oc, en, FALSE, 0, incr)

\* preload_hooks::libc_mprotect / libc_madvise: 0, or -1 with the kernel's
\* errno
libc_mprotect(rs, en) ==
    {Outcome(FALSE, 0, en, rs), Outcome(FALSE, -1, KERNEL_ERRNO, rs)}

libc_madvise(rs, en) ==
    {Outcome(FALSE, 0, en, rs), Outcome(FALSE, -1, KERNEL_ERRNO, rs)}

\* Allocator::mprotect
mprotect(rs, en, addr) ==
    LET k == region_from_addr(rs, addr)
    IN  IF k = "panic" THEN {Outcome(TRUE, -1, en, rs)}
        ELSE IF k = "none" \/ k = FILE THEN libc_mprotect(rs, en)
        ELSE {Outcome(FALSE, 0, en, rs)}

\* Allocator::madvise
madvise(rs, en, addr) ==
    LET k == region_from_addr(rs, addr)
    IN  IF k = "panic" THEN {Outcome(TRUE, -1, en, rs)}
        ELSE IF k = "none" \/ k = FILE THEN libc_madvise(rs, en)
        ELSE {Outcome(FALSE, 0, en, rs)}

MREMAP_MAYMOVE == "MREMAP_MAYMOVE"

MREMAP_FIXED == "MREMAP_FIXED"

MAP_ANONYMOUS == "MAP_ANONYMOUS"

\* preload_hooks::libc_mremap: the real mremap, which changes no Region; it
\* fails, resizes in place, or moves the mapping
libc_mremap(rs, en, old_address, flags) ==
    {Outcome(FALSE, MAP_FAILED, KERNEL_ERRNO, rs),
     Outcome(FALSE, old_address, en, rs)}
    \cup (IF MREMAP_MAYMOVE \in flags
            THEN {Outcome(FALSE, LibcAddr(rs), en, rs)} ELSE {})

\* Allocator::mremap.  The region lock is taken at line 357 and released
\* only at line 403: a panic and the returns of lines 370, 383 and 389
\* leave it held.
mremap(rs, oc, en, old_address, old_size, new_size, flags, new_address) ==
    LET k == region_from_addr(rs, old_address)
    IN  IF k = "panic" THEN {Outcome(TRUE, MAP_FAILED, en, rs)}
        ELSE IF k = "none" THEN libc_mremap(rs, en, old_address, flags)
        ELSE IF ~rs[k].lock THEN {}
        ELSE
          LET held_r(r) == [r EXCEPT !.lock = FALSE]
              free_r(r) == [r EXCEPT !.lock = TRUE]
              with(r)   == [rs EXCEPT ![k] = r]
              sum       == new_address + new_size
              in_region ==
                  IF sum > USIZE_MAX
                    THEN ~oc /\ (sum % UsizeModulus) <= rs[k].max
                    ELSE sum <= rs[k].max
              mflags    == {MAP_ANONYMOUS, MAP_PRIVATE}
              relocate(r, req_addr) ==
                  LET a == alloc_range(r, req_addr, new_size, mflags, oc)
                  IN  IF a.panic
                        THEN {Outcome(TRUE, MAP_FAILED, en, with(held_r(r)))}
                      ELSE IF req_addr # a.ret /\ MREMAP_FIXED \in flags
                        THEN {Outcome(FALSE, MAP_FAILED, EEXIST,
                                      with(free_r(a.r)))}
                      ELSE {Outcome(FALSE, new_address, en, with(free_r(a.r)))}
          IN  IF ~(MREMAP_FIXED \in flags /\ in_region)
                THEN {Outcome(TRUE, MAP_FAILED, en, with(held_r(rs[k])))}
              ELSE IF MREMAP_FIXED \notin flags
                THEN IF old_size >= new_size
                       THEN {Outcome(FALSE, old_address, en,
                               with(held_r(free_range(rs[k],
                                       old_address + new_size,
                                       old_size - new_size))))}
                     ELSE
                       LET a == alloc_range(rs[k], old_address + old_size,
                                            new_size - old_size, mflags, oc)
                       IN  IF a.panic
                             THEN {Outcome(TRUE, MAP_FAILED, en,
                                           with(held_r(rs[k])))}
                           ELSE IF a.ret = old_address + old_size
                             THEN {Outcome(FALSE, old_address, en,
                                           with(held_r(a.r)))}
                           ELSE IF a.ret # USIZE_MAX
                             THEN {Outcome(TRUE, MAP_FAILED, en,
                                           with(held_r(a.r)))}
                           ELSE IF MREMAP_MAYMOVE \notin flags
                             THEN {Outcome(FALSE, MAP_FAILED, ENOMEM,
                                           with(held_r(a.r)))}
                           ELSE relocate(a.r, 0)
              ELSE relocate(rs[k], new_address)

----------------------------------------------------------------------------
(* The state machine *)

\* where the bootstrap may have placed the heap: below and above the
\* length of the regions
HeapStarts == {PAGE_SIZE, 16 * PAGE_SIZE}

\* Allocator::new: the three regions placed back to back, in the order
\* heap, anon, file
PlacedAt(hs, heap_pages, file_pages) ==
    LET heap == Region_init(BRK, hs, heap_pages * PAGE_SIZE)
        anon == Region_init(ANON, heap.max, AnonPages * PAGE_SIZE)
        file == Region_init(FILE, anon.max, file_pages * PAGE_SIZE)
    IN  [k \in AllocType |->
            IF k = BRK THEN heap ELSE IF k = ANON THEN anon ELSE file]

Placed(hs) == PlacedAt(hs, HeapPages, FilePages)

\* the addresses of the base pages of region r
PageAddrs(r) ==
    {r.start + i * PAGE_SIZE : i \in 0..(((r.max - r.start) \div PAGE_SIZE) - 1)}

\* the arguments the interposed calls are made with: no hint, every page of
\* the anon region, a heap address and an address outside the regions
Addrs ==
    {0, regions[BRK].start, regions[FILE].max} \cup PageAddrs(regions[ANON])

\* lengths: one byte (rounded up by alloc_range) and whole pages
Lens == {1} \cup {n * PAGE_SIZE : n \in 1..AnonPages}

FlagSets == {{}, {MAP_FIXED}, {MAP_FIXED_NOREPLACE}, {MAP_SHARED}}

Init ==
    /\ overflow_checks \in BOOLEAN
    /\ \E hs \in HeapStarts : regions = Placed(hs)
    /\ drained = FALSE
    /\ aborted = FALSE
    /\ errno = NOERR
    /\ held = {}
    /\ boot = NoBoot
    /\ thr = NoThreads

Bounded(rs) == \A k \in AllocType : Len(rs[k].free_map) <= MaxRanges

Apply(o) ==
    /\ Bounded(o.regions)
    /\ regions' = o.regions
    /\ aborted' = o.aborted
    /\ errno' = o.errno
    /\ UNCHANGED <<overflow_checks, drained, held, boot, thr>>

\* Allocator::drain
Drain ==
    /\ ~aborted
    /\ ~drained
    /\ drained' = TRUE
    /\ errno' = NOERR
    /\ UNCHANGED <<overflow_checks, regions, aborted, held, boot, thr>>

Mmap ==
    /\ ~aborted
    /\ \E addr \in Addrs, len \in Lens, flags \in FlagSets :
         \E o \in mmap(regions, drained, overflow_checks, errno, addr, len, flags, -1) :
            Apply(o)

Munmap ==
    /\ ~aborted
    /\ \E addr \in Addrs, len \in Lens :
         \E o \in munmap(regions, overflow_checks, errno, addr, len) :
            Apply(o)

Next == Drain \/ Mmap \/ Munmap

Spec == Init /\ [][Next]_vars

----------------------------------------------------------------------------
(* The anon region driven directly through Region::alloc_range and          *)
(* Region::free_range, with the arguments Allocator::mmap and               *)
(* Allocator::munmap pass once the drain is over (allocator.rs:255-258,     *)
(* 291-294), and the history of what was handed out.                        *)

InitRegion ==
    /\ overflow_checks \in BOOLEAN
    /\ \E hs \in HeapStarts : regions = Placed(hs)
    /\ drained = TRUE
    /\ aborted = FALSE
    /\ errno = NOERR
    /\ held = {}
    /\ boot = NoBoot
    /\ thr = NoThreads

Hints == PageAddrs(regions[ANON])

RegionFlagSets == {{}, {MAP_FIXED}, {MAP_FIXED_NOREPLACE}}

AllocRange ==
    /\ ~aborted
    /\ \E addr \in {0} \cup Hints, len \in Lens, flags \in RegionFlagSets :
         /\ addr = 0 \/ addr + len <= regions[ANON].max
         /\ LET a == alloc_range(regions[ANON], addr, len, flags, overflow_checks)
            IN  /\ Len(a.r.free_map) <= MaxRanges
                /\ regions' = [regions EXCEPT ![ANON] = a.r]
                /\ aborted' = a.panic
                /\ held' = IF a.panic \/ a.ret = USIZE_MAX THEN held
                           ELSE held \cup Span(a.ret, align_up(len, PAGE_SIZE))
    /\ UNCHANGED <<overflow_checks, drained, errno, boot, thr>>

FreeRange ==
    /\ ~aborted
    /\ \E addr \in Hints, len \in Lens :
         /\ addr + len <= regions[ANON].max
         /\ LET r == free_range(regions[ANON], addr, len)
            IN  /\ Len(r.free_map) <= MaxRanges
                /\ regions' = [regions EXCEPT ![ANON] = r]
                /\ held' = held \ Span(addr, align_up(len, PAGE_SIZE))
    /\ UNCHANGED <<overflow_checks, drained, aborted, errno, boot, thr>>

NextRegion == AllocRange \/ FreeRange

SpecRegion == InitRegion /\ [][NextRegion]_vars

----------------------------------------------------------------------------
(* The heap driven through Allocator::brk and Allocator::sbrk, from the     *)
(* bootstrap through the drain.                                             *)

InitBrk ==
    /\ overflow_checks \in BOOLEAN
    /\ \E hs \in HeapStarts : regions = PlacedAt(hs, BrkHeapPages, FilePages)
    /\ drained = FALSE
    /\ aborted = FALSE
    /\ errno = NOERR
    /\ held = {}
    /\ boot = NoBoot
    /\ thr = NoThreads

\* the arguments of brk: below, inside (aligned or not) and at the end of
\* the heap
BrkAddrs ==
    {0, regions[BRK].start + 1, regions[BRK].max}
    \cup PageAddrs(regions[BRK])

\* the arguments of sbrk: nothing, single bytes, whole pages, and the
\* smallest isize
Incrs ==
    {0, 1, -1, ISIZE_MIN}
    \cup {n * PAGE_SIZE : n \in 1..(BrkHeapPages - 1)}
    \cup {-(n * PAGE_SIZE) : n \in 1..(BrkHeapPages - 1)}

Brk ==
    /\ ~aborted
    /\ \E addr \in BrkAddrs :
         \E o \in brk(regions, drained, overflow_checks, errno, addr) :
            Apply(o)

Sbrk ==
    /\ ~aborted
    /\ \E incr \in Incrs :
         \E o \in sbrk(regions, drained, overflow_checks, errno, incr) :
            Apply(o)

NextBrk == Drain \/ Brk \/ Sbrk

SpecBrk == InitBrk /\ [][NextBrk]_vars

----------------------------------------------------------------------------
(* The anon region under a page-size plan, driven through                   *)
(* Region::alloc_range and Region::free_range.                              *)

\* the huge page of the model (2 MiB in the plan files)
HUGE_SIZE == HugeFactor * PAGE_SIZE

\* a plan with a gap left to the base page size between two huge intervals
PlanGap ==
    <<Interval(HUGE_SIZE, 0, 2 * HUGE_SIZE),
      Interval(HUGE_SIZE, 3 * HUGE_SIZE, 4 * HUGE_SIZE)>>

\* a plan that is huge throughout
PlanHuge == <<Interval(HUGE_SIZE, 0, 2 * HUGE_SIZE)>>

Plans == {PlanGap, PlanHuge}

\* Allocator::new with the anon plan given: the anon region starts at the
\* heap's max aligned up to the anon region's max_pgsz
PlacedPool(hs, pool) ==
    LET heap == Region_init(BRK, hs, HeapPages * PAGE_SIZE)
        anon == Region_new(ANON, pool,
                           align_up(heap.max, PoolFold(pool, 1, 0, 0).max_pgsz))
        file == Region_init(FILE, anon.max, FilePages * PAGE_SIZE)
    IN  [k \in AllocType |->
            IF k = BRK THEN heap ELSE IF k = ANON THEN anon ELSE file]

InitTiles ==
    /\ overflow_checks \in BOOLEAN
    /\ \E hs \in HeapStarts, pool \in Plans : regions = PlacedPool(hs, pool)
    /\ drained = TRUE
    /\ aborted = FALSE
    /\ errno = NOERR
    /\ held = {}
    /\ boot = NoBoot
    /\ thr = NoThreads

\* an mmap without a hint, as Allocator::mmap hands it to alloc_range
AllocTiles ==
    /\ ~aborted
    /\ \E len \in Lens :
         LET a == alloc_range(regions[ANON], 0, len, {}, overflow_checks)
         IN  /\ Len(a.r.free_map) <= MaxRanges
             /\ regions' = [regions EXCEPT ![ANON] = a.r]
             /\ aborted' = a.panic
             /\ held' = IF a.panic \/ a.ret = USIZE_MAX THEN held
                        ELSE held \cup Span(a.ret, align_up(len, PAGE_SIZE))
    /\ UNCHANGED <<overflow_checks, drained, errno, boot, thr>>

\* the munmap of a range that was handed out
FreeTiles ==
    /\ ~aborted
    /\ \E addr \in Hints, len \in Lens :
         /\ Span(addr, align_up(len, PAGE_SIZE)) \subseteq held
         /\ LET r == free_range(regions[ANON], addr, len)
            IN  /\ Len(r.free_map) <= MaxRanges
                /\ regions' = [regions EXCEPT ![ANON] = r]
                /\ held' = held \ Span(addr, align_up(len, PAGE_SIZE))
    /\ UNCHANGED <<overflow_checks, drained, aborted, errno, boot, thr>>

NextTiles == AllocTiles \/ FreeTiles

SpecTiles == InitTiles /\ [][NextTiles]_vars

----------------------------------------------------------------------------
(* The file region driven through Allocator::mmap with a file descriptor    *)
(* and Allocator::munmap, from the bootstrap through the drain.             *)

\* a descriptor of an open file (any fd other than -1)
FileFd == 3

InitFile ==
    /\ overflow_checks \in BOOLEAN
    /\ \E hs \in HeapStarts : regions = PlacedAt(hs, HeapPages, MappedFilePages)
    /\ drained = FALSE
    /\ aborted = FALSE
    /\ errno = NOERR
    /\ held = {}
    /\ boot = NoBoot
    /\ thr = NoThreads

\* no hint, every page of the file region, and an address outside the
\* regions
FileAddrs == {0, regions[FILE].max} \cup PageAddrs(regions[FILE])

FileLens == {1} \cup {n * PAGE_SIZE : n \in 1..MappedFilePages}

MmapFile ==
    /\ ~aborted
    /\ \E addr \in FileAddrs, len \in FileLens, flags \in FlagSets :
         \E o \in mmap(regions, drained, overflow_checks, errno,
                        addr, len, flags, FileFd) :
            Apply(o)

MunmapFile ==
    /\ ~aborted
    /\ \E addr \in FileAddrs \ {0}, len \in FileLens :
         \E o \in munmap(regions, overflow_checks, errno, addr, len) :
            Apply(o)

\* the pages of the three regions and an address outside them
ProtAddrs ==
    {regions[FILE].max} \cup UNION {PageAddrs(regions[k]) : k \in AllocType}

Mprotect ==
    /\ ~aborted
    /\ \E addr \in ProtAddrs :
         \E o \in mprotect(regions, errno, addr) : Apply(o)

Madvise ==
    /\ ~aborted
    /\ \E addr \in ProtAddrs :
         \E o \in madvise(regions, errno, addr) : Apply(o)

NextFile == Drain \/ MmapFile \/ MunmapFile \/ Mprotect \/ Madvise

SpecFile == InitFile /\ [][NextFile]_vars

----------------------------------------------------------------------------
(* Allocator::mmap called with every kind of address, descriptor and flag   *)
(* word, from the bootstrap through the drain.                              *)

DispatchAddrs == {0} \cup ProtAddrs

DispatchLens == {PAGE_SIZE, 2 * PAGE_SIZE}

\* flag words: no sharing type, private, shared, shared-validate, and
\* private with one more flag
DispatchFlagSets ==
    {{}, {MAP_PRIVATE}, {MAP_SHARED}, MAP_SHARED_VALIDATE,
     {MAP_PRIVATE, MAP_GROWSDOWN}, {MAP_PRIVATE, MAP_HUGETLB},
     {MAP_PRIVATE, MAP_FIXED_NOREPLACE}}

Fds == {-1, FileFd}

MmapReq ==
    /\ ~aborted
    /\ \E addr \in DispatchAddrs, len \in DispatchLens,
          flags \in DispatchFlagSets, fd \in Fds :
         \E o \in mmap(regions, drained, overflow_checks, errno,
                        addr, len, flags, fd) :
            Apply(o)

MunmapReq ==
    /\ ~aborted
    /\ \E addr \in ProtAddrs, len \in DispatchLens :
         \E o \in munmap(regions, overflow_checks, errno, addr, len) :
            Apply(o)

NextDispatch == Drain \/ MmapReq \/ MunmapReq

SpecDispatch == Init /\ [][NextDispatch]_vars

----------------------------------------------------------------------------
(* Allocator::mremap and Allocator::munmap on the placed regions *)

RemapAddrs ==
    {regions[BRK].start, regions[FILE].max} \cup PageAddrs(regions[ANON])

RemapSizes == {n * PAGE_SIZE : n \in 1..AnonPages}

RemapFlagSets == SUBSET {MREMAP_MAYMOVE, MREMAP_FIXED}

Mremap ==
    /\ ~aborted
    /\ \E old_address \in RemapAddrs, old_size \in RemapSizes,
          new_size \in RemapSizes, flags \in RemapFlagSets,
          new_address \in {0} \cup PageAddrs(regions[ANON]) :
         \E o \in mremap(regions, overflow_checks, errno, old_address,
                          old_size, new_size, flags, new_address) :
            Apply(o)

NextRemap == Mremap \/ Munmap

SpecRemap == Init /\ [][NextRemap]_vars

----------------------------------------------------------------------------
(* Allocator::new: the scan of /proc/self/maps that places the regions.     *)
(* boot holds the lines of the memory map, the locals of the loop (line,    *)
(* last, upper, region) and the real program break.                         *)

\* Region::new: a region with its plan and no place yet
Region_created(kind, pool) ==
    LET f == PoolFold(pool, 1, 0, 0)
    IN  [alloc_type |-> kind,
         pool       |-> pool,
         start      |-> 0,
         end        |-> 0,
         max        |-> 0,
         max_pgsz   |-> f.max_pgsz,
         len        |-> f.len,
         free_map   |-> <<>>,
         lock       |-> TRUE]

\* Region::init
Region_placed(r, start) ==
    [r EXCEPT !.start = start,
              !.end = start,
              !.max = start + r.len,
              !.free_map = Append(r.free_map, Range(start, start + r.len))]

\* Pool::new_file_pool; its assert!(sz & PAGE_SIZE == 0) tests bit 12 of sz
\* and holds for the size used below
new_file_pool(sz) == <<Interval(PAGE_SIZE, 0, sz)>>

\* the plans of the bootstrap: one huge page of heap, two of anon, two base
\* pages of file
HeapPlan == <<Interval(HUGE_SIZE, 0, HUGE_SIZE)>>

AnonPlan == PlanHuge

FilePlan == new_file_pool(2 * PAGE_SIZE)

\* The while loop of lines 73-98 on a line that starts at a0: every region
\* that fits the gap [last, a0) is placed in turn.  brk_ok tells whether
\* the real brk of line 80 succeeds; broke tells that the file region was
\* placed (break 'outer).
RECURSIVE found_gap(_, _, _, _, _, _, _)
found_gap(rs, region, last, upper, a0, pbrk, brk_ok) ==
    IF ~(last >= upper /\ last < a0 /\ a0 - last >= rs[region].len)
      THEN [rs |-> rs, region |-> region, last |-> last, upper |-> upper,
            brk |-> pbrk, broke |-> FALSE, panic |-> FALSE]
    ELSE
      LET r   == Region_placed(rs[region], last)
          rs2 == [rs EXCEPT ![region] = r]
      IN  IF region = BRK
            THEN IF ~brk_ok
                   THEN [rs |-> rs2, region |-> region, last |-> last,
                         upper |-> r.max, brk |-> pbrk, broke |-> FALSE,
                         panic |-> TRUE]
                   ELSE LET up == align_up(r.max, rs[ANON].max_pgsz)
                        IN  found_gap(rs2, ANON, up, up, a0, r.start, brk_ok)
          ELSE IF region = ANON
            THEN LET up == align_up(r.max, rs[FILE].max_pgsz)
                 IN  found_gap(rs2, FILE, up, up, a0, pbrk, brk_ok)
          ELSE [rs |-> rs2, region |-> region, last |-> last,
                upper |-> r.max, brk |-> pbrk, broke |-> TRUE,
                panic |-> FALSE]

\* one line of /proc/self/maps: its address range and whether its last
\* field is [stack]
Mapping(start, end, stack) == [start |-> start, end |-> end, stack |-> stack]

\* the sorted lists of at most n disjoint mappings that lie in [lo, hi]
RECURSIVE LinesFrom(_, _, _)
LinesFrom(lo, hi, n) ==
    IF n = 0 THEN {<<>>}
    ELSE {<<>>} \cup
         UNION {{<<Mapping(a * PAGE_SIZE, b * PAGE_SIZE, FALSE)>> \o rest :
                    rest \in LinesFrom(b, hi, n - 1)} :
                <<a, b>> \in {ab \in (lo..hi) \X (lo..hi) : ab[1] < ab[2]}}

\* the stack mapping sits above the other lines, and a last mapping
\* (the vsyscall page) may follow it
StackLine == Mapping(BootPages * PAGE_SIZE, (BootPages + 1) * PAGE_SIZE, TRUE)

TailLine ==
    Mapping((BootPages + 1 + TailGapPages) * PAGE_SIZE,
            (BootPages + 2 + TailGapPages) * PAGE_SIZE, FALSE)

BootMaps ==
    {pre \o <<StackLine>> \o tail :
        pre \in LinesFrom(1, BootPages, BootLines),
        tail \in {<<>>, <<TailLine>>}}

\* the program break before the bootstrap: below the stack and not inside
\* a mapping
InitialBrks(maps) ==
    {b * PAGE_SIZE : b \in {c \in 1..BootPages :
        \A i \in 1..Len(maps) :
            c * PAGE_SIZE <= maps[i].start \/ c * PAGE_SIZE >= maps[i].end}}

InitBoot ==
    /\ overflow_checks = FALSE
    /\ regions = [k \in AllocType |->
                    Region_created(k, IF k = BRK THEN HeapPlan
                                      ELSE IF k = ANON THEN AnonPlan
                                      ELSE FilePlan)]
    /\ drained = FALSE
    /\ aborted = FALSE
    /\ errno = NOERR
    /\ held = {}
    /\ thr = NoThreads
    /\ \E maps \in BootMaps :
         \E b \in InitialBrks(maps) :
            boot = [maps |-> maps, line |-> 1, last |-> 0,
                    upper |-> align_up(b, PoolFold(HeapPlan, 1, 0, 0).max_pgsz),
                    region |-> BRK, brk |-> b, initial_brk |-> b,
                    built |-> FALSE]

Scanning == ~aborted /\ ~boot.built

\* lines 69-72: a line read while last < upper only moves last
ScanSkip ==
    /\ Scanning
    /\ boot.line <= Len(boot.maps)
    /\ boot.last < boot.upper
    /\ boot' = [boot EXCEPT
                  !.last = align_up(boot.maps[boot.line].end,
                                    regions[boot.region].max_pgsz),
                  !.line = boot.line + 1]
    /\ UNCHANGED <<overflow_checks, regions, drained, aborted, errno, held,
                   thr>>

\* lines 73-105: a line read while last >= upper places what fits the gap
\* below it, then panics if the heap is still unplaced or the line is the
\* stack
ScanGap ==
    /\ Scanning
    /\ boot.line <= Len(boot.maps)
    /\ boot.last >= boot.upper
    /\ \E brk_ok \in BOOLEAN :
         LET m == boot.maps[boot.line]
             g == found_gap(regions, boot.region, boot.last, boot.upper,
                            m.start, boot.brk, brk_ok)
             no_space == g.region = BRK \/ m.stack
         IN  /\ regions' = g.rs
             /\ aborted' = (g.panic \/ (~g.broke /\ no_space))
             /\ boot' = [boot EXCEPT !.region = g.region,
                                      !.last = g.last,
                                      !.upper = g.upper,
                                      !.brk = g.brk,
                                      !.built = g.broke,
                                      !.line = boot.line + 1]
    /\ UNCHANGED <<overflow_checks, drained, errno, held, thr>>

\* the lines are exhausted: the loop ends and the Allocator is built
ScanEnd ==
    /\ Scanning
    /\ boot.line > Len(boot.maps)
    /\ boot' = [boot EXCEPT !.built = TRUE]
    /\ UNCHANGED <<overflow_checks, regions, drained, aborted, errno, held,
                   thr>>

NextBoot == ScanSkip \/ ScanGap \/ ScanEnd

SpecBoot == InitBoot /\ [][NextBoot]_vars

----------------------------------------------------------------------------
(* Region::lock / Region::unlock: threads of the process inside the         *)
(* interposed calls.  A call is cut at its two lock operations: up to        *)
(* region.lock(), the section between lock() and unlock(), and unlock().     *)

\* the threads that call into the allocator
LockThreads == 2

Threads == 1..LockThreads

\* AtomicBool::compare_exchange(current, new): a blind exchange, which
\* stores new whatever the word holds
compare_exchange_blind(word, current, new) == [ok |-> TRUE, word |-> new]

\* AtomicBool::compare_exchange(current, new): one atomic step
compare_exchange(word, current, new) ==
    [ok |-> word = current, word |-> IF word = current THEN new ELSE word]

\* Lock::lock: one turn of its loop.  A failed exchange changes nothing but
\* the thread's own spin counter (every LOOPS_PER_YIELD turns it yields), so
\* a spinning thread is one that has not yet taken the step below.
Lock_lock(word) == compare_exchange(word, TRUE, FALSE)

\* Lock::unlock: store(true)
Lock_unlock(word) == TRUE

NoReq == [op |-> "none"]

MmapCall(addr, len, flags, fd) ==
    [op |-> "mmap", addr |-> addr, len |-> len, flags |-> flags, fd |-> fd]

MunmapCall(addr, len) == [op |-> "munmap", addr |-> addr, len |-> len]

SbrkCall(incr) == [op |-> "sbrk", incr |-> incr]

MremapCall(old_address, old_size, new_size, flags, new_address) ==
    [op |-> "mremap", old_address |-> old_address, old_size |-> old_size,
     new_size |-> new_size, flags |-> flags, new_address |-> new_address]

\* the calls the threads make: each passes the checks that precede the
\* lock() of its handler (the allocator is drained, the address is inside a
\* region, no flag sends the call to libc)
LockCalls ==
    LET first == regions[ANON].start
        last  == regions[ANON].max - PAGE_SIZE
    IN  {MmapCall(0, PAGE_SIZE, {}, -1), SbrkCall(PAGE_SIZE),
         SbrkCall(-PAGE_SIZE),
         MremapCall(first, PAGE_SIZE, PAGE_SIZE, {MREMAP_FIXED}, last),
         MremapCall(first, 2 * PAGE_SIZE, PAGE_SIZE, {MREMAP_MAYMOVE}, 0)}
        \cup {MunmapCall(a, PAGE_SIZE) : a \in PageAddrs(regions[ANON])}

\* the region whose lock the handler of the call takes: do_brk line 146,
\* mmap line 257, munmap line 293, mremap line 357
LockRegion(rs, c) ==
    IF c.op = "sbrk" THEN BRK
    ELSE IF c.op = "mmap" THEN region_from_req(rs, c.addr, c.fd)
    ELSE IF c.op = "munmap" THEN region_from_addr(rs, c.addr)
    ELSE region_from_addr(rs, c.old_address)

\* the handler of the call, run in state (rs, en)
Handler(rs, oc, en, c) ==
    IF c.op = "sbrk" THEN sbrk(rs, TRUE, oc, en, c.incr)
    ELSE IF c.op = "mmap"
      THEN mmap(rs, TRUE, oc, en, c.addr, c.len, c.flags, c.fd)
    ELSE IF c.op = "munmap" THEN munmap(rs, oc, en, c.addr, c.len)
    ELSE mremap(rs, oc, en, c.old_address, c.old_size, c.new_size, c.flags,
                c.new_address)

InitLock ==
    /\ overflow_checks \in BOOLEAN
    /\ regions = PlacedAt(PAGE_SIZE, BrkHeapPages, FilePages)
    /\ drained = TRUE
    /\ aborted = FALSE
    /\ errno = NOERR
    /\ held = {}
    /\ boot = NoBoot
    /\ thr = [pc    |-> [t \in Threads |-> "idle"],
              call  |-> [t \in Threads |-> NoReq],
              holds |-> [t \in Threads |-> {}]]

\* thread t enters an interposed call and arrives at region.lock()
Call(t) ==
    /\ ~aborted
    /\ thr.pc[t] = "idle"
    /\ \E c \in LockCalls :
         /\ LockRegion(regions, c) \in AllocType
         /\ thr' = [thr EXCEPT !.pc[t] = "lock", !.call[t] = c]
    /\ UNCHANGED <<overflow_checks, regions, drained, aborted, errno, held,
                   boot>>

\* thread t's compare_exchange succeeds and lock() returns
Acquire(t) ==
    /\ ~aborted
    /\ thr.pc[t] = "lock"
    /\ LET k == LockRegion(regions, thr.call[t])
           x == Lock_lock(regions[k].lock)
       IN  /\ x.ok
           /\ regions' = [regions EXCEPT ![k].lock = x.word]
           /\ thr' = [thr EXCEPT !.pc[t] = "section",
                                 !.holds[t] = @ \cup {k}]
    /\ UNCHANGED <<overflow_checks, drained, aborted, errno, held, boot>>

\* thread t runs the handler from lock() on.  The handlers above take the
\* lock themselves, so the handler is run on the word as t found it; the
\* word stays taken until t's unlock().  A handler that panics or returns
\* without unlock() leaves t holding the lock.
Section(t) ==
    /\ ~aborted
    /\ thr.pc[t] = "section"
    /\ LET c == thr.call[t]
           k == LockRegion(regions, c)
       IN  \E o \in Handler([regions EXCEPT ![k].lock = TRUE],
                            overflow_checks, errno, c) :
              /\ Bounded(o.regions)
              /\ regions' = [o.regions EXCEPT ![k].lock = FALSE]
              /\ aborted' = o.aborted
              /\ errno' = o.errno
              /\ thr' = IF o.aborted THEN thr
                        ELSE IF o.regions[k].lock
                          THEN [thr EXCEPT !.pc[t] = "unlock"]
                        ELSE [thr EXCEPT !.pc[t] = "idle", !.call[t] = NoReq]
    /\ UNCHANGED <<overflow_checks, drained, held, boot>>

\* thread t's unlock() and the return of the call
Release(t) ==
    /\ ~aborted
    /\ thr.pc[t] = "unlock"
    /\ LET k == LockRegion(regions, thr.call[t])
       IN  /\ regions' = [regions EXCEPT ![k].lock = Lock_unlock(@)]
           /\ thr' = [thr EXCEPT !.pc[t] = "idle", !.call[t] = NoReq,
                                 !.holds[t] = @ \ {k}]
    /\ UNCHANGED <<overflow_checks, drained, aborted, errno, held, boot>>

NextLock ==
    \E t \in Threads : Call(t) \/ Acquire(t) \/ Section(t) \/ Release(t)

SpecLock == InitLock /\ [][NextLock]_vars

----------------------------------------------------------------------------
(* preload_init (preload_hooks.rs): Allocator::new(config, false), then     *)
(* Allocator::drain.  The process's malloc is the environment: it serves    *)
(* 64-byte chunks from what it reserved before the hooks were installed,    *)
(* and when that is used up it asks for more through the interposed sbrk    *)
(* and then through an interposed anonymous mmap.  thr holds the position   *)
(* of preload_init and the chunks left in malloc's reserve.                 *)

\* the largest reserve of malloc, in chunks
ReserveChunks == 3

InitDrain ==
    /\ overflow_checks = FALSE
    /\ regions = [k \in AllocType |->
                    Region_created(k, IF k = BRK THEN HeapPlan
                                      ELSE IF k = ANON THEN AnonPlan
                                      ELSE FilePlan)]
    /\ drained = FALSE
    /\ aborted = FALSE
    /\ errno = NOERR
    /\ held = {}
    /\ \E reserve \in 0..ReserveChunks :
         thr = [pc |-> "new", reserve |-> reserve]
    /\ \E maps \in BootMaps :
         \E b \in InitialBrks(maps) :
            boot = [maps |-> maps, line |-> 1, last |-> 0,
                    upper |-> align_up(b, PoolFold(HeapPlan, 1, 0, 0).max_pgsz),
                    region |-> BRK, brk |-> b, initial_brk |-> b,
                    built |-> FALSE]

\* preload_hooks.rs:160-161: Allocator::new has returned, drain() is called
DrainEnter ==
    /\ ~aborted
    /\ boot.built
    /\ thr.pc = "new"
    /\ thr' = [thr EXCEPT !.pc = "malloc"]
    /\ UNCHANGED <<overflow_checks, regions, drained, aborted, errno, held,
                   boot>>

\* malloc(CHUNK) served from the reserve: non-null, the loop goes on
MallocChunk ==
    /\ ~aborted
    /\ thr.pc = "malloc"
    /\ thr.reserve > 0
    /\ thr' = [thr EXCEPT !.reserve = thr.reserve - 1]
    /\ UNCHANGED <<overflow_checks, regions, drained, aborted, errno, held,
                   boot>>

\* malloc(CHUNK) with the reserve used up: malloc calls sbrk, which is
\* Allocator::sbrk by now
MallocSbrk ==
    /\ ~aborted
    /\ thr.pc = "malloc"
    /\ thr.reserve = 0
    /\ \E o \in sbrk(regions, drained, overflow_checks, errno, PAGE_SIZE) :
         /\ regions' = o.regions
         /\ aborted' = o.aborted
         /\ errno' = o.errno
         /\ thr' = IF o.aborted THEN thr
                   ELSE IF o.ret = USIZE_MAX THEN [thr EXCEPT !.pc = "mmap"]
                   ELSE [thr EXCEPT !.reserve = 1]
    /\ UNCHANGED <<overflow_checks, drained, held, boot>>

\* sbrk failed: malloc falls back to an anonymous private mmap, which is
\* Allocator::mmap; when that fails too malloc returns null
MallocMmap ==
    /\ ~aborted
    /\ thr.pc = "mmap"
    /\ \E o \in mmap(regions, drained, overflow_checks, errno,
                      0, PAGE_SIZE, {MAP_PRIVATE}, -1) :
         /\ regions' = o.regions
         /\ aborted' = o.aborted
         /\ errno' = o.errno
         /\ thr' = IF o.aborted THEN thr
                   ELSE IF o.ret = MAP_FAILED THEN [thr EXCEPT !.pc = "null"]
                   ELSE [thr EXCEPT !.pc = "malloc", !.reserve = 1]
    /\ UNCHANGED <<overflow_checks, drained, held, boot>>

\* allocator.rs:134-135: the loop has ended
DrainReturn ==
    /\ ~aborted
    /\ thr.pc = "null"
    /\ errno' = NOERR
    /\ drained' = TRUE
    /\ thr' = [thr EXCEPT !.pc = "drained"]
    /\ UNCHANGED <<overflow_checks, regions, aborted, held, boot>>

NextDrain ==
    \/ ScanSkip \/ ScanGap \/ ScanEnd
    \/ DrainEnter \/ MallocChunk \/ MallocSbrk \/ MallocMmap \/ DrainReturn

SpecDrain == InitDrain /\ [][NextDrain]_vars

\* preload_init runs on the one thread of the library constructor and no
\* step of it waits for anything
SpecDrainFair == SpecDrain /\ WF_vars(NextDrain)

----------------------------------------------------------------------------
(* internal_allocator.rs: InternalAllocator, the global allocator of the    *)
(* library.  thr.idx is the watermark of the arena, held the blocks handed  *)
(* out and not given back, thr.calls the kernel requests made so far.       *)

\* the arena of the model, in bytes (256 KiB in the source)
ARENA_SIZE == 6

MAX_SUPPORTED_ALIGN == 4096

MMAP_THRESHOLD == 4096

\* address of the arena: the struct is aligned to 4096
arena == MAX_SUPPORTED_ALIGN

null == 0

\* a kernel request of the allocator: the libc function and how it is
\* reached, through real!(f) or through the exported symbol f
Request(f, via) == [fn |-> f, via |-> via]

\* the symbols preload_hooks.rs exports with hook!
HookedSymbols ==
    {"mmap", "munmap", "mprotect", "madvise", "mremap", "brk", "sbrk"}

\* line 60: preload_hooks::libc_mmap
mmap_alloc == Request("mmap", "real")

None == -1

\* AtomicUsize::fetch_update with the closure's answer for the current
\* value
fetch_update(idx, new) ==
    [ok |-> new # None, prev |-> idx, idx |-> IF new # None THEN new ELSE idx]

\* closure of alloc_helper, lines 87-94
alloc_update(idx, size, algn) ==
    LET new_idx == align_up(idx, algn) + size
    IN  IF new_idx > ARENA_SIZE THEN None ELSE new_idx

\* what the real mmap may answer: an unused address or MAP_FAILED
alloc_helper(idx, size, algn, zero, unused) ==
    IF algn > MAX_SUPPORTED_ALIGN
      THEN {[ptr |-> null, idx |-> idx, calls |-> {}]}
    ELSE IF size >= MMAP_THRESHOLD
      THEN {[ptr |-> p, idx |-> idx, calls |-> {mmap_alloc}] :
              p \in unused \cup {MAP_FAILED}}
    ELSE LET u == fetch_update(idx, alloc_update(idx, size, algn))
         IN  {[ptr |-> IF u.ok THEN arena + align_up(u.prev, algn) ELSE null,
               idx |-> u.idx, calls |-> {}]}

\* closure of dealloc, lines 127-134
dealloc_update(idx, ptr, size) ==
    IF ptr + size # arena + idx THEN None ELSE idx - size

dealloc(idx, ptr, size) ==
    IF size >= MMAP_THRESHOLD
      THEN [idx |-> idx, calls |-> {Request("munmap", "real")},
            panic |-> ptr = MAP_FAILED]
    ELSE [idx |-> fetch_update(idx, dealloc_update(idx, ptr, size)).idx,
          calls |-> {}, panic |-> FALSE]

\* closure of realloc, lines 167-181
realloc_update(idx, ptr, old_size, new_size) ==
    IF ptr + old_size # arena + idx THEN None
    ELSE IF new_size < old_size THEN idx - (old_size - new_size)
    ELSE IF idx + (new_size - old_size) > ARENA_SIZE THEN None
    ELSE idx + (new_size - old_size)

\* line 162: libc::mremap, the symbol mremap
realloc_mremap == Request("mremap", "symbol")

Block(ptr, size, algn) == [ptr |-> ptr, size |-> size, algn |-> algn]

ArenaSizes == {1, 2, 3, MMAP_THRESHOLD, 2 * MMAP_THRESHOLD}

ArenaAligns == {1, 4, 2 * MAX_SUPPORTED_ALIGN}

\* the layouts requested of the arena: sizes below the threshold at every
\* alignment
ArenaLayouts == {l \in ArenaSizes \X ArenaAligns : l[1] < MMAP_THRESHOLD}

\* the layouts requested across the threshold
MmapLayouts == {l \in ArenaSizes \X {4} : l[1] >= 3}

\* the address the kernel hands out for an mmap block
KernelAddrs == {4 * MMAP_THRESHOLD}

\* blocks a thread is reallocating are not touched by the other threads
Busy == {thr.req[t].block : t \in {u \in Threads : thr.pc[u] # "idle"}}

Unused == KernelAddrs \ {b.ptr : b \in held}

NoBlock == Block(null, 0, 1)

InitArena ==
    /\ overflow_checks = FALSE
    /\ regions = Placed(PAGE_SIZE)
    /\ drained = TRUE
    /\ aborted = FALSE
    /\ errno = NOERR
    /\ held = {}
    /\ boot = NoBoot
    /\ thr = [idx   |-> 0,
              pc    |-> [t \in Threads |-> "idle"],
              req   |-> [t \in Threads |->
                           [block |-> NoBlock, new_size |-> 0]],
              calls |-> {}]

\* GlobalAlloc::alloc and alloc_zeroed
ArenaAlloc(t, layouts) ==
    /\ ~aborted
    /\ thr.pc[t] = "idle"
    /\ \E l \in layouts, zero \in BOOLEAN :
         \E a \in alloc_helper(thr.idx, l[1], l[2], zero, Unused) :
            /\ thr' = [thr EXCEPT !.idx = a.idx,
                                  !.calls = thr.calls \cup a.calls]
            /\ held' = IF a.ptr = null THEN held
                       ELSE held \cup {Block(a.ptr, l[1], l[2])}
    /\ UNCHANGED <<overflow_checks, regions, drained, aborted, errno, boot>>

\* GlobalAlloc::dealloc of a block handed out before
ArenaDealloc(t) ==
    /\ ~aborted
    /\ thr.pc[t] = "idle"
    /\ \E b \in held \ Busy :
         LET d == dealloc(thr.idx, b.ptr, b.size)
         IN  /\ thr' = [thr EXCEPT !.idx = d.idx,
                                   !.calls = thr.calls \cup d.calls]
             /\ held' = held \ {b}
             /\ aborted' = d.panic
    /\ UNCHANGED <<overflow_checks, regions, drained, errno, boot>>

\* GlobalAlloc::realloc up to its first update of idx or its first kernel
\* request (lines 142-183)
ArenaRealloc(t, layouts) ==
    /\ ~aborted
    /\ thr.pc[t] = "idle"
    /\ \E b \in held \ Busy, new_size \in {l[1] : l \in layouts} :
         LET moving == [thr EXCEPT !.pc[t] = "move",
                                   !.req[t] = [block |-> b,
                                               new_size |-> new_size]]
         IN  IF (b.size >= MMAP_THRESHOLD) # (new_size >= MMAP_THRESHOLD)
               THEN thr' = moving /\ UNCHANGED <<held, aborted>>
             ELSE IF b.size >= MMAP_THRESHOLD
               THEN \E p \in (Unused \cup {b.ptr, MAP_FAILED}) :
                       /\ thr' = [thr EXCEPT
                                    !.calls = thr.calls \cup {realloc_mremap}]
                       /\ aborted' = (p = MAP_FAILED \/ b.ptr = MAP_FAILED)
                       /\ held' = IF aborted' THEN held
                                  ELSE (held \ {b})
                                         \cup {Block(p, new_size, b.algn)}
             ELSE LET u == fetch_update(thr.idx,
                             realloc_update(thr.idx, b.ptr, b.size, new_size))
                  IN  IF u.ok
                        THEN /\ thr' = [thr EXCEPT !.idx = u.idx]
                             /\ held' = (held \ {b})
                                          \cup {Block(b.ptr, new_size, b.algn)}
                             /\ UNCHANGED aborted
                      ELSE thr' = moving /\ UNCHANGED <<held, aborted>>
    /\ UNCHANGED <<overflow_checks, regions, drained, errno, boot>>

\* realloc from self.alloc(...) on (lines 145-148 and 185-187): the new
\* block, the copy, and on lines 145-148 the dealloc of the old block.
\* copy_nonoverlapping into a null or MAP_FAILED pointer is undefined: the
\* process dies or the copy does nothing.
ArenaReallocMove(t) ==
    /\ ~aborted
    /\ thr.pc[t] = "move"
    /\ LET b        == thr.req[t].block
           new_size == thr.req[t].new_size
           crossing == (b.size >= MMAP_THRESHOLD) # (new_size >= MMAP_THRESHOLD)
       IN  \E a \in alloc_helper(thr.idx, new_size, b.algn, FALSE, Unused),
              dies \in BOOLEAN :
              LET d == IF crossing THEN dealloc(a.idx, b.ptr, b.size)
                       ELSE [idx |-> a.idx, calls |-> {}, panic |-> FALSE]
                  wild == a.ptr \in {null, MAP_FAILED}
              IN  /\ dies => wild
                  /\ aborted' = (dies \/ d.panic)
                  /\ thr' = [thr EXCEPT
                               !.idx = IF dies THEN a.idx ELSE d.idx,
                               !.calls = thr.calls \cup a.calls
                                           \cup (IF dies THEN {} ELSE d.calls),
                               !.pc[t] = "idle",
                               !.req[t] = [block |-> NoBlock, new_size |-> 0]]
                  /\ held' = IF dies THEN held
                             ELSE (held \ {b})
                                    \cup (IF a.ptr = null THEN {}
                                          ELSE {Block(a.ptr, new_size, b.algn)})
    /\ UNCHANGED <<overflow_checks, regions, drained, errno, boot>>

\* requests below the threshold only
NextArena ==
    \E t \in Threads :
       \/ ArenaAlloc(t, ArenaLayouts)
       \/ ArenaDealloc(t)
       \/ ArenaRealloc(t, ArenaLayouts)
       \/ ArenaReallocMove(t)

SpecArena == InitArena /\ [][NextArena]_vars

\* requests on both sides of the threshold
NextMmapAlloc ==
    \E t \in Threads :
       \/ ArenaAlloc(t, MmapLayouts)
       \/ ArenaDealloc(t)
       \/ ArenaRealloc(t, MmapLayouts)
       \/ ArenaReallocMove(t)

SpecMmapAlloc == InitArena /\ [][NextMmapAlloc]_vars

----------------------------------------------------------------------------
(* Concurrent mmap calls without MAP_FIXED on the anon region, and munmap   *)
(* calls that give back what mmap returned.  held records the ranges that    *)
(* mmap has returned and that no munmap call has been made for.              *)

\* the longest mmap request, in pages
ConcPages == 2

HeldRange(addr, len) == [addr |-> addr, len |-> len]

InitConc ==
    /\ overflow_checks \in BOOLEAN
    /\ \E hs \in HeapStarts : regions = Placed(hs)
    /\ drained = TRUE
    /\ aborted = FALSE
    /\ errno = NOERR
    /\ held = {}
    /\ boot = NoBoot
    /\ thr = [pc    |-> [t \in Threads |-> "idle"],
              call  |-> [t \in Threads |-> NoReq],
              holds |-> [t \in Threads |-> {}]]

\* thread t calls mmap with or without a hint and arrives at region.lock()
MmapEnter(t) ==
    /\ ~aborted
    /\ thr.pc[t] = "idle"
    /\ \E addr \in {0} \cup PageAddrs(regions[ANON]), n \in 1..ConcPages :
         /\ addr = 0 \/ addr + n * PAGE_SIZE <= regions[ANON].max
         /\ thr' = [thr EXCEPT !.pc[t] = "lock",
                               !.call[t] = MmapCall(addr, n * PAGE_SIZE, {}, -1)]
    /\ UNCHANGED <<overflow_checks, regions, drained, aborted, errno, held,
                   boot>>

\* thread t calls munmap on a range mmap returned and arrives at
\* region.lock()
MunmapEnter(t) ==
    /\ ~aborted
    /\ thr.pc[t] = "idle"
    /\ \E h \in held :
         /\ region_from_addr(regions, h.addr) \in AllocType
         /\ thr' = [thr EXCEPT !.pc[t] = "lock",
                               !.call[t] = MunmapCall(h.addr, h.len)]
         /\ held' = held \ {h}
    /\ UNCHANGED <<overflow_checks, regions, drained, aborted, errno, boot>>

\* thread t runs its handler from lock() on: Region::alloc_range (the
\* free-map update and the backing) or Region::free_range, and what follows
\* up to unlock()
Serve(t) ==
    /\ ~aborted
    /\ thr.pc[t] = "section"
    /\ LET c == thr.call[t]
           k == LockRegion(regions, c)
       IN  \E o \in Handler([regions EXCEPT ![k].lock = TRUE],
                            overflow_checks, errno, c) :
              /\ Bounded(o.regions)
              /\ regions' = [o.regions EXCEPT ![k].lock = FALSE]
              /\ aborted' = o.aborted
              /\ errno' = o.errno
              /\ thr' = IF o.aborted THEN thr
                        ELSE [thr EXCEPT !.pc[t] = "unlock"]
              /\ held' = IF c.op = "mmap" /\ ~o.aborted /\ o.ret # MAP_FAILED
                           THEN held \cup {HeldRange(o.ret, c.len)}
                         ELSE held
    /\ UNCHANGED <<overflow_checks, drained, boot>>

NextConc ==
    \E t \in Threads :
       MmapEnter(t) \/ MunmapEnter(t) \/ Acquire(t) \/ Serve(t) \/ Release(t)

SpecConc == InitConc /\ [][NextConc]_vars

----------------------------------------------------------------------------
(* Futex::lock / Futex::unlock (futex.rs), one action per atomic operation  *)
(* and per futex system call.  The word stays within a few units of zero,    *)
(* so the width of the AtomicI32 plays no part.                              *)

\* the threads that use the mutex
FutexThreads == 3

FThreads == 1..FutexThreads

\* AtomicI32::fetch_sub / fetch_add: the value read and the value left
fetch_sub(word, val) == [old |-> word, word |-> word - val]

fetch_add(word, val) == [old |-> word, word |-> word + val]

\* Futex::new
InitFutex ==
    /\ overflow_checks \in BOOLEAN
    /\ regions = Placed(PAGE_SIZE)
    /\ drained = TRUE
    /\ aborted = FALSE
    /\ errno = NOERR
    /\ held = {}
    /\ boot = NoBoot
    /\ thr = [futex |-> 1, pc |-> [t \in FThreads |-> "idle"]]

FutexRest == <<overflow_checks, regions, drained, aborted, errno, held, boot>>

\* lock(), line 34: fetch_sub(1); the lock is taken if the word was 1
FetchSub(t) ==
    /\ thr.pc[t] = "idle"
    /\ LET x == fetch_sub(thr.futex, 1)
       IN  thr' = [thr EXCEPT !.futex = x.word,
                              !.pc[t] = IF x.old # 1 THEN "store"
                                        ELSE "locked"]
    /\ UNCHANGED FutexRest

\* lock(), line 35: store(-1)
StoreWaiters(t) ==
    /\ thr.pc[t] = "store"
    /\ thr' = [thr EXCEPT !.futex = -1, !.pc[t] = "wait"]
    /\ UNCHANGED FutexRest

\* lock(), line 36: FUTEX_WAIT with the expected value -1.  The kernel puts
\* the thread to sleep only if the word still holds -1; otherwise the call
\* returns at once, and with it lock().
FutexWait(t) ==
    /\ thr.pc[t] = "wait"
    /\ thr' = [thr EXCEPT !.pc[t] = IF thr.futex = -1 THEN "asleep"
                                    ELSE "locked"]
    /\ UNCHANGED FutexRest

\* a woken thread returns from FUTEX_WAIT, and with it from lock()
WaitReturns(t) ==
    /\ thr.pc[t] = "woken"
    /\ thr' = [thr EXCEPT !.pc[t] = "locked"]
    /\ UNCHANGED FutexRest

\* unlock(), line 42: fetch_add(1); nothing more if the word was 0
FetchAdd(t) ==
    /\ thr.pc[t] = "locked"
    /\ LET x == fetch_add(thr.futex, 1)
       IN  thr' = [thr EXCEPT !.futex = x.word,
                              !.pc[t] = IF x.old # 0 THEN "ustore"
                                        ELSE "idle"]
    /\ UNCHANGED FutexRest

\* unlock(), line 43: store(1)
StoreFree(t) ==
    /\ thr.pc[t] = "ustore"
    /\ thr' = [thr EXCEPT !.futex = 1, !.pc[t] = "wake"]
    /\ UNCHANGED FutexRest

\* unlock(), line 44: FUTEX_WAKE of one waiter, if any thread sleeps
FutexWake(t) ==
    /\ thr.pc[t] = "wake"
    /\ \/ /\ \A s \in FThreads : thr.pc[s] # "asleep"
          /\ thr' = [thr EXCEPT !.pc[t] = "idle"]
       \/ \E s \in FThreads :
             /\ thr.pc[s] = "asleep"
             /\ thr' = [thr EXCEPT !.pc[t] = "idle", !.pc[s] = "woken"]
    /\ UNCHANGED FutexRest

\* the steps of thread t once it has called lock()
Proceed(t) ==
    \/ StoreWaiters(t) \/ FutexWait(t) \/ WaitReturns(t)
    \/ FetchAdd(t) \/ StoreFree(t) \/ FutexWake(t)

NextFutex == \E t \in FThreads : FetchSub(t) \/ Proceed(t)

SpecFutex == InitFutex /\ [][NextFutex]_vars

\* fair scheduling: a thread that can take a step of lock() or unlock()
\* eventually takes it, and a thread that holds the mutex eventually calls
\* unlock(); no thread is obliged to call lock()
SpecFutexFair == SpecFutex /\ \A t \in FThreads : WF_vars(Proceed(t))

----------------------------------------------------------------------------
(* Pool::from_csv: the page plan of one allocation type read from the CSV   *)
(* configuration (called by Allocator::new for the heap and the anon pool)   *)

\* the rows of the configuration file
CsvRows == 3

\* a size as the file spells it: digits and a suffix
SizeStr(digits, sfx) == [digits |-> digits, sfx |-> sfx]

\* misc::size_from_str for the suffixes "", "B" and "KB"
size_from_str(str) ==
    IF str.sfx \in {"", "B"} THEN str.digits ELSE str.digits * 1024

\* htlb::supported_htlb_sizes: the huge page sizes the kernel lists in
\* sysfs; the base page is not one of them
supported_htlb_sizes == {HUGE_SIZE}

CSVRecord(region_type, page_size, start_offset, end_offset) ==
    [region_type |-> region_type, page_size |-> page_size,
     start_offset |-> start_offset, end_offset |-> end_offset]

\* AllocType::as_str
as_str(alloc_type) ==
    IF alloc_type = BRK THEN "brk"
    ELSE IF alloc_type = ANON THEN "mmap" ELSE "file"

\* Interval::from(CSVRecord): the interval, or a panic of one of its asserts
Interval_from(rec) ==
    LET pagesz == size_from_str(rec.page_size)
        start  == size_from_str(rec.start_offset)
        end    == size_from_str(rec.end_offset)
    IN  [panic |-> \/ pagesz \notin supported_htlb_sizes
                   \/ start % pagesz # 0
                   \/ end % pagesz # 0
                   \/ start = end,
         interval |-> Interval(pagesz, start, end)]

\* slice::sort_by_key(|k| k.start): a stable sort, by insertion
RECURSIVE sort_by_start(_)
sort_by_start(v) ==
    IF Len(v) <= 1 THEN v
    ELSE LET body == sort_by_start(SubSeq(v, 1, Len(v) - 1))
             x    == v[Len(v)]
             n    == Cardinality({i \in 1..Len(body) : body[i].start <= x.start})
         IN  VecInsert(body, n + 1, x)

\* the check of lines 322-325: prev is bound to intervals[0] once, before
\* the loop, and every later interval is compared with it
overlap_assert_panics(intervals) ==
    \E i \in 2..Len(intervals) : ~(intervals[1].end <= intervals[i].start)

\* Pool::from_csv(alloc_type, config) on a file with the rows csv
from_csv(alloc_type, csv) ==
    LET mine == SelectSeq(csv, LAMBDA rec : rec.region_type = as_str(alloc_type))
        made == [i \in 1..Len(mine) |-> Interval_from(mine[i])]
        intervals == sort_by_start([i \in 1..Len(mine) |-> made[i].interval])
    IN  IF \E i \in 1..Len(mine) : made[i].panic
          THEN [panic |-> TRUE, intervals |-> <<>>]
        ELSE IF Len(intervals) = 0          \* intervals[0] is out of bounds
          THEN [panic |-> TRUE, intervals |-> <<>>]
        ELSE IF overlap_assert_panics(intervals)
          THEN [panic |-> TRUE, intervals |-> <<>>]
        ELSE [panic |-> FALSE, intervals |-> intervals]

\* the sizes a row may spell: multiples of the huge page, in bytes or in KB,
\* and one offset that is not aligned to it
CsvOffsets ==
    {SizeStr(n * HUGE_SIZE, "") : n \in {0, 2}}
    \cup {SizeStr((n * HUGE_SIZE) \div 1024, "KB") : n \in {1, 3, 4}}
    \cup {SizeStr(PAGE_SIZE, "B")}

\* rows of the anon pool with a huge page size, one row with the base page
\* size, and one row of the heap pool
CsvRecords ==
    {CSVRecord("mmap", SizeStr(HUGE_SIZE, ""), a, b) : a, b \in CsvOffsets}
    \cup {CSVRecord("mmap", SizeStr(PAGE_SIZE \div 1024, "KB"),
                    SizeStr(0, ""), SizeStr(HUGE_SIZE, ""))}
    \cup {CSVRecord("brk", SizeStr(HUGE_SIZE, ""),
                    SizeStr(0, ""), SizeStr(HUGE_SIZE, ""))}

CsvFiles == UNION {[1..n -> CsvRecords] : n \in 0..CsvRows}

InitPool ==
    /\ overflow_checks = FALSE
    /\ regions = Placed(PAGE_SIZE)
    /\ drained = FALSE
    /\ aborted = FALSE
    /\ errno = NOERR
    /\ held = {}
    /\ \E csv \in CsvFiles :
          boot = [csv |-> csv, intervals |-> <<>>, built |-> FALSE]
    /\ thr = NoThreads

\* Pool::from_csv(AllocType::ANON, config)
FromCsv ==
    /\ ~aborted
    /\ ~boot.built
    /\ LET p == from_csv(ANON, boot.csv)
       IN  /\ aborted' = p.panic
           /\ boot' = [boot EXCEPT !.intervals = p.intervals,
                                   !.built = ~p.panic]
    /\ UNCHANGED <<overflow_checks, regions, drained, errno, held, thr>>

NextPool == FromCsv

SpecPool == InitPool /\ [][NextPool]_vars

----------------------------------------------------------------------------
(* Vocabulary of the properties *)

Anon == regions[ANON]

\* no interposed call is inside the region: the process runs and the lock
\* is free
Idle == ~aborted /\ Anon.lock

\* the pages of region r that its free_map holds
FreeSet(r) ==
    {a \in PageAddrs(r) :
        \E i \in 1..Len(r.free_map) : RangeContains(r.free_map[i], a)}

FreeSetOf(r, fm) == FreeSet([r EXCEPT !.free_map = fm])

\* page-rounded lengths
ALens == {align_up(len, PAGE_SIZE) : len \in Lens}

\* one free range holds the whole of [a, a + len)
InOneRange(fm, a, len) ==
    \E i \in 1..Len(fm) : fm[i].start <= a /\ a + len <= fm[i].end

\* the start of the first free range of at least len bytes, USIZE_MAX if none
FirstFit(fm, len) ==
    IF \E i \in 1..Len(fm) : RangeLen(fm[i]) >= len
      THEN fm[CHOOSE i \in 1..Len(fm) :
                 /\ RangeLen(fm[i]) >= len
                 /\ \A j \in 1..(i - 1) : RangeLen(fm[j]) < len].start
      ELSE USIZE_MAX

\* the take and the alloc_range a call with these arguments starts with
Take(hint, len) ==
    del_range_from_freemap(Anon.free_map, hint, len, overflow_checks)

Alloc(addr, len, flags) ==
    alloc_range(Anon, addr, len, flags, overflow_checks)

----------------------------------------------------------------------------
(* C1..C10 *)

\* C1: whenever the lock of a placed region is not held, its free_map is
\* sorted by start, its ranges are pairwise disjoint, no two ranges touch,
\* and every range lies inside [start, max).
C1_FreeMapSortedDisjointCoalesced ==
    \A k \in AllocType :
        LET r == regions[k]
            fm == r.free_map
        IN  r.lock =>
              /\ \A i \in 1..Len(fm) : r.start <= fm[i].start /\ fm[i].end <= r.max
              /\ \A i, j \in 1..Len(fm) :
                    i < j => /\ fm[i].start <= fm[j].start
                             /\ fm[i].end # fm[j].start
                             /\ ~\E a \in PageAddrs(r) :
                                   RangeContains(fm[i], a) /\ RangeContains(fm[j], a)

\* C2: after any sequence of alloc_range / free_range calls on a freshly
\* placed region, the free pages are exactly the pages of [start, max) that
\* no successful alloc_range has handed out without a later free_range.
C2_FreeIsComplementOfAllocated ==
    Idle => FreeSet(Anon) = PageAddrs(Anon) \ held

\* C3: no range stored in free_map has length zero.
C3_NoEmptyRange ==
    \A k \in AllocType :
        \A i \in 1..Len(regions[k].free_map) :
            regions[k].free_map[i].start < regions[k].free_map[i].end

\* C4: take(hint, len) with hint # 0 returns hint if and only if a single
\* free range contains the whole of [hint, hint + len); otherwise it fails.
C4_TakeReturnsHintIffContained ==
    Idle =>
      \A hint \in Hints, len \in ALens :
        hint + len <= Anon.max =>
          LET d == Take(hint, len)
          IN  /\ (~d.panic /\ d.ret = hint) <=> InOneRange(Anon.free_map, hint, len)
              /\ ~InOneRange(Anon.free_map, hint, len) =>
                    (~d.panic /\ d.ret = USIZE_MAX)

\* C5: a successful take(hint, len) returning addr removes exactly
\* [addr, addr + len) from the free set; a failed take leaves free_map
\* unchanged.
C5_TakeRemovesExactlyTheRange ==
    Idle =>
      \A hint \in {0} \cup Hints, len \in ALens :
        (hint = 0 \/ hint + len <= Anon.max) =>
          LET d == Take(hint, len)
          IN  \/ d.panic
              \/ /\ d.ret = USIZE_MAX => d.fm = Anon.free_map
                 /\ d.ret # USIZE_MAX =>
                       FreeSetOf(Anon, d.fm) = FreeSet(Anon) \ Span(d.ret, len)

\* C6: a take(hint, len) that succeeds, immediately followed by
\* give(hint, len), returns free_map to exactly its prior value.
C6_TakeThenGiveRestores ==
    Idle =>
      \A hint \in Hints, len \in ALens :
        hint + len <= Anon.max =>
          LET d == Take(hint, len)
          IN  (~d.panic /\ d.ret # USIZE_MAX) =>
                add_range_to_freemap(d.fm, hint, len) = Anon.free_map

\* C7: an mmap with MAP_FIXED_NOREPLACE fails with EEXIST, leaving free_map
\* and end unchanged, when any byte of [hint, hint + len) is reserved, and
\* returns hint when the whole range is free.
C7_NoReplaceNeverOverlapsReserved ==
    (Idle /\ drained) =>
      \A hint \in Hints, len \in Lens :
        hint + len <= Anon.max =>
          \A o \in mmap(regions, drained, overflow_checks, errno,
                         hint, len, {MAP_FIXED_NOREPLACE}, -1) :
            IF Span(hint, align_up(len, PAGE_SIZE)) \subseteq FreeSet(Anon)
              THEN ~o.aborted /\ o.ret = hint
              ELSE /\ ~o.aborted
                   /\ o.ret = MAP_FAILED
                   /\ o.errno = EEXIST
                   /\ o.regions = regions

C9_FixedAtReservedIsIdempotent ==
    Idle =>
      \A hint \in Hints, len \in Lens :
        (/\ hint + len <= Anon.max
         /\ Span(hint, align_up(len, PAGE_SIZE)) \cap FreeSet(Anon) = {}) =>
          LET a == Alloc(hint, len, {MAP_FIXED})
          IN  ~a.panic /\ a.ret = hint /\ a.r = Anon

\* C10: a managed mmap with neither MAP_FIXED nor MAP_FIXED_NOREPLACE
\* returns hint when [hint, hint + len) is free, otherwise the start of the
\* first free range of at least the page-rounded len; it fails only when
\* no free range is that long, with MAP_FAILED and ENOMEM.
C10_DefaultPlacement ==
    (Idle /\ drained) =>
      \A addr \in {0} \cup Hints, len \in Lens :
        (addr = 0 \/ addr + len <= Anon.max) =>
          LET alen == align_up(len, PAGE_SIZE)
              want == IF addr # 0 /\ InOneRange(Anon.free_map, addr, alen)
                        THEN addr
                        ELSE FirstFit(Anon.free_map, alen)
          IN  \A o \in mmap(regions, drained, overflow_checks, errno,
                             addr, len, {}, -1) :
                /\ ~o.aborted
                /\ o.ret = want
                /\ (want = USIZE_MAX) => (o.errno = ENOMEM)

----------------------------------------------------------------------------
(* C11..C20 *)

Heap == regions[BRK]

File == regions[FILE]

\* no interposed call is running: the process has not panicked and no
\* region lock is held
Quiet == ~aborted /\ \A k \in AllocType : regions[k].lock

\* the arguments of an mmap that region_from_req routes to the anon region
AnonReqs == {0} \cup PageAddrs(Anon)

\* some free range of region r is at least len bytes long
HasRoom(r, len) == \E i \in 1..Len(r.free_map) : RangeLen(r.free_map[i]) >= len

\* C11: while drained is false, brk, sbrk and every mmap routed to the anon
\* region fail with ENOMEM and change no region; once drained is true the
\* same calls succeed whenever the region has room.
C11_DrainGatesHeapAndAnon ==
    Quiet =>
      IF ~drained
        THEN /\ \A addr \in BrkAddrs :
                  brk(regions, drained, overflow_checks, errno, addr)
                    = {Outcome(FALSE, -1, ENOMEM, regions)}
             /\ \A incr \in Incrs :
                  sbrk(regions, drained, overflow_checks, errno, incr)
                    = {Outcome(FALSE, USIZE_MAX, ENOMEM, regions)}
             /\ \A addr \in AnonReqs, len \in Lens, flags \in FlagSets :
                  mmap(regions, drained, overflow_checks, errno, addr, len, flags, -1)
                    = {Outcome(FALSE, MAP_FAILED, ENOMEM, regions)}
        ELSE /\ \A incr \in Incrs :
                  (incr > 0 /\ Heap.end + incr < Heap.max) =>
                    \A o \in sbrk(regions, drained, overflow_checks, errno, incr) :
                        ~o.aborted /\ o.ret # USIZE_MAX
             /\ \A addr \in BrkAddrs :
                  (addr > Heap.end /\ addr < Heap.max) =>
                    \A o \in brk(regions, drained, overflow_checks, errno, addr) :
                        ~o.aborted /\ o.ret = 0
             /\ \A len \in Lens :
                  HasRoom(Anon, align_up(len, PAGE_SIZE)) =>
                    \A o \in mmap(regions, drained, overflow_checks, errno, 0, len, {}, -1) :
                        ~o.aborted /\ o.ret # MAP_FAILED

\* C12: a munmap on an address of the anon or file region made before the
\* drain completes fails with EINVAL and leaves every free_map unchanged.
C12_MunmapBeforeDrainFailsEinval ==
    (Quiet /\ ~drained) =>
      \A k \in {ANON, FILE} :
        \A addr \in PageAddrs(regions[k]), len \in Lens :
          addr + len <= regions[k].max =>
            \A o \in munmap(regions, overflow_checks, errno, addr, len) :
              /\ ~o.aborted
              /\ o.ret = -1
              /\ o.errno = EINVAL
              /\ o.regions = regions

\* a call that returned without panicking and without reporting failure
Succeeded(o, failure) == ~o.aborted /\ o.ret # failure

\* C13: after the drain a successful sbrk(incr) returns the break as it was
\* and makes the break old + incr, a successful brk(x) returns 0 and makes
\* the break x, and sbrk(0) returns the break and changes nothing; for
\* every increment, page-aligned or not.
C13_BrkSbrkMoveTheBreak ==
    (Quiet /\ drained) =>
      /\ \A incr \in Incrs :
           \A o \in sbrk(regions, drained, overflow_checks, errno, incr) :
             Succeeded(o, USIZE_MAX) =>
               /\ o.ret = Heap.end
               /\ o.regions[BRK].end = Heap.end + incr
      /\ \A addr \in BrkAddrs :
           \A o \in brk(regions, drained, overflow_checks, errno, addr) :
             Succeeded(o, -1) =>
               /\ o.ret = 0
               /\ o.regions[BRK].end = addr
      /\ \A o \in sbrk(regions, drained, overflow_checks, errno, 0) :
           /\ ~o.aborted
           /\ o.ret = Heap.end
           /\ o.regions = regions

\* the positive increments of Incrs
Growths == {incr \in Incrs : incr > 0}

\* C14: after sbrk(+N) followed by sbrk(-N), both successful, the heap's
\* end and free_map are what they were before the pair, for every N > 0,
\* page-aligned or not.
C14_SbrkUpThenDownRestores ==
    (Quiet /\ drained) =>
      \A n \in Growths :
        \A o1 \in sbrk(regions, drained, overflow_checks, errno, n) :
          Succeeded(o1, USIZE_MAX) =>
            \A o2 \in sbrk(o1.regions, drained, overflow_checks, o1.errno, -n) :
              Succeeded(o2, USIZE_MAX) =>
                /\ o2.regions[BRK].end = Heap.end
                /\ o2.regions[BRK].free_map = Heap.free_map

\* C15: after any sequence of brk / sbrk calls the heap's reserved space is
\* the single interval [start, end): its free_map is exactly
\* <<[end, max)>>, and <<[start, max)>> while the heap is idle.
C15_HeapIsOneIntervalBelowBreak ==
    Quiet =>
      /\ Heap.start <= Heap.end
      /\ Heap.end <= Heap.max
      /\ Heap.free_map = IF Heap.end = Heap.max THEN <<>>
                         ELSE <<Range(Heap.end, Heap.max)>>

\* C16: a brk or sbrk whose resulting break lies outside [start, max) of
\* the heap fails with ENOMEM, releases the heap lock and leaves the heap
\* unchanged, for every increment; the call never aborts the process.
C16_BreakOutsideHeapFailsEnomem ==
    (Quiet /\ drained) =>
      /\ \A incr \in Incrs :
           ~Region_contains(Heap, Heap.end + incr) =>
             sbrk(regions, drained, overflow_checks, errno, incr)
               = {Outcome(FALSE, USIZE_MAX, ENOMEM, regions)}
      /\ \A addr \in BrkAddrs :
           ~Region_contains(Heap, addr) =>
             brk(regions, drained, overflow_checks, errno, addr)
               = {Outcome(FALSE, -1, ENOMEM, regions)}

\* the page size the plan gives the byte at offset: that of the interval
\* [start, end) holding it, the base page size outside every interval
PlanSize(pool, offset) ==
    IF \E i \in 1..Len(pool) : pool[i].start <= offset /\ offset < pool[i].end
      THEN pool[CHOOSE i \in 1..Len(pool) :
                    pool[i].start <= offset /\ offset < pool[i].end].pagesz
      ELSE PAGE_SIZE

\* the base pages under one backing mmap
TilePages(t) == {t.addr + i * PAGE_SIZE : i \in 0..((t.pagesz \div PAGE_SIZE) - 1)}

\* C17: every backing mmap that alloc_range issues for a tile at t uses the
\* page size of the plan interval covering t - region.start, every byte
\* under the tile is planned at that size, and the tiles cover the reserved
\* range; also when the cursor sits on the boundary of two intervals.
C17_TilesFollowThePlan ==
    Idle =>
      \A addr \in {0} \cup Hints, len \in Lens :
        (addr = 0 \/ addr + len <= Anon.max) =>
          LET a    == Alloc(addr, len, {})
              alen == align_up(len, PAGE_SIZE)
              ts   == backing(a.r, a.ret, a.ret + alen)
          IN  (~a.panic /\ a.ret # USIZE_MAX) =>
                /\ \A i \in 1..Len(ts) :
                     /\ ts[i].pagesz = PlanSize(Anon.pool, ts[i].addr - Anon.start)
                     /\ \A p \in TilePages(ts[i]) :
                          PlanSize(Anon.pool, p - Anon.start) = ts[i].pagesz
                /\ \A p \in Span(a.ret, alen) :
                     \E i \in 1..Len(ts) : p \in TilePages(ts[i])

\* the requests that Allocator::mmap routes to the file region
FileReqs(addr) == region_from_req(regions, addr, FileFd) = FILE

\* C18: a successful mmap routed to the file region removes the
\* page-rounded range from the file region's free_map, maps no backing
\* tile, hands MAP_FIXED_NOREPLACE | caller_flags to the real mmap, and
\* returns the reserved address.
C18_FileMmapReservesThenMapsFixed ==
    Quiet =>
      \A addr \in FileAddrs, len \in FileLens, flags \in FlagSets :
        (FileReqs(addr) /\ (addr = 0 \/ addr + len <= File.max)) =>
          LET a    == alloc_range(File, addr, len, flags, overflow_checks)
              alen == align_up(len, PAGE_SIZE)
          IN  \A o \in mmap(regions, drained, overflow_checks, errno,
                             addr, len, flags, FileFd) :
                Succeeded(o, MAP_FAILED) =>
                  /\ o.regions[FILE] = a.r
                  /\ (MAP_FIXED \notin flags =>
                        Span(a.ret, alen) \cap FreeSet(o.regions[FILE]) = {})
                  /\ alloc_range_backing(a.r, a.ret, a.ret + alen) = <<>>
                  /\ file_mmap_flags(flags) = flags \cup {MAP_FIXED_NOREPLACE}
                  /\ o.ret = a.ret

\* what the caller of an interposed call observes of its outcomes
Observed(os) == {[ret |-> o.ret, errno |-> o.errno] : o \in os}

\* the descriptor with which a hint-less mmap is routed to region k
FdOf(k) == IF k = FILE THEN FileFd ELSE -1

\* C19: munmap(addr, len) inside the anon or the file region returns the
\* page-rounded range to that region's free_map and touches no other
\* region; in the anon region it returns 0 and makes no real munmap, in the
\* file region it returns the real munmap's result; outside every region it
\* is the real munmap and changes no region; a successful mmap followed by
\* the munmap of the address and length it returned restores free_map.
C19_MunmapReturnsTheRange ==
    Quiet =>
      /\ \A k \in {ANON, FILE} :
           \A addr \in PageAddrs(regions[k]), len \in FileLens :
             addr + len <= regions[k].max =>
               LET os == munmap(regions, overflow_checks, errno, addr, len)
               IN  /\ os # {}
                   /\ \A o \in os :
                        /\ ~o.aborted
                        /\ FreeSet(o.regions[k]) =
                             FreeSet(regions[k])
                               \cup Span(addr, align_up(len, PAGE_SIZE))
                        /\ \A j \in AllocType \ {k} :
                             o.regions[j] = regions[j]
                   /\ k = ANON =>
                        Observed(os) = {[ret |-> 0, errno |-> errno]}
                   /\ k = FILE =>
                        Observed(os) = Observed(libc_munmap(regions, errno))
      /\ \A len \in FileLens :
           munmap(regions, overflow_checks, errno, regions[FILE].max, len)
             = libc_munmap(regions, errno)
      /\ \A k \in {ANON, FILE} :
           \A addr \in {0} \cup PageAddrs(regions[k]), len \in FileLens,
              flags \in {{}, {MAP_FIXED_NOREPLACE}} :
             (addr = 0 \/ addr + len <= regions[k].max) =>
               \A o1 \in mmap(regions, drained, overflow_checks, errno,
                               addr, len, flags, FdOf(k)) :
                 Succeeded(o1, MAP_FAILED) =>
                   \A o2 \in munmap(o1.regions, overflow_checks, o1.errno,
                                     o1.ret, len) :
                     /\ ~o2.aborted
                     /\ o2.regions[k].free_map = regions[k].free_map

\* C20: mprotect and madvise on a heap or anon address return 0 with no
\* real syscall, no abort and no change of any region; on a file-region
\* address or an address outside the regions their outcome is the real
\* syscall's.
C20_MprotectMadviseIgnoredOrForwarded ==
    ~aborted =>
      \A addr \in ProtAddrs :
        /\ (Region_contains(Heap, addr) \/ Region_contains(Anon, addr)) =>
             /\ mprotect(regions, errno, addr)
                  = {Outcome(FALSE, 0, errno, regions)}
             /\ madvise(regions, errno, addr)
                  = {Outcome(FALSE, 0, errno, regions)}
        /\ ~(Region_contains(Heap, addr) \/ Region_contains(Anon, addr)) =>
             /\ mprotect(regions, errno, addr) = libc_mprotect(regions, errno)
             /\ madvise(regions, errno, addr) = libc_madvise(regions, errno)

----------------------------------------------------------------------------
(* C21..C30 *)

\* the region whose [start, max) holds addr, "none" when there is none
Holder(addr) ==
    IF \E k \in AllocType : Region_contains(regions[k], addr)
      THEN CHOOSE k \in AllocType : Region_contains(regions[k], addr)
      ELSE "none"

\* the region an mmap(addr, fd) is to be routed to
Target(addr, fd) ==
    IF addr = 0 THEN (IF fd = -1 THEN ANON ELSE FILE) ELSE Holder(addr)

\* the flag word carries MAP_SHARED, MAP_SHARED_VALIDATE, MAP_GROWSDOWN or
\* MAP_HUGETLB
CarriesNonStd(flags) ==
    \/ MAP_SHARED \in flags
    \/ MAP_SHARED_VALIDATE \subseteq flags
    \/ MAP_GROWSDOWN \in flags
    \/ MAP_HUGETLB \in flags

\* C21: an mmap is served by the target region (anon or file by fd when
\* addr = 0, else the region that contains addr, heap included) and changes
\* no other region; when no region contains addr, or the target is the
\* anon region and the flag word carries MAP_SHARED, MAP_SHARED_VALIDATE,
\* MAP_GROWSDOWN or MAP_HUGETLB, the call is the real mmap with the same
\* arguments and changes no region.
C21_DispatchByAddrAndFd ==
    Quiet =>
      \A addr \in DispatchAddrs, len \in DispatchLens,
         flags \in DispatchFlagSets, fd \in Fds :
        LET k  == Target(addr, fd)
            os == mmap(regions, drained, overflow_checks, errno,
                       addr, len, flags, fd)
        IN  /\ k = "none" => os = libc_mmap(regions, errno, addr, flags)
            /\ (k = ANON /\ drained /\ CarriesNonStd(flags)) =>
                 os = libc_mmap(regions, errno, addr, flags)
            /\ (/\ k \in AllocType
                /\ ~(k = ANON /\ (~drained \/ CarriesNonStd(flags)))
                /\ (addr = 0 \/ addr + len <= regions[k].max)) =>
                 LET a == alloc_range(regions[k], addr, len, flags,
                                      overflow_checks)
                 IN  ~a.panic =>
                       /\ os # {}
                       /\ \A o \in os :
                            /\ ~o.aborted
                            /\ o.regions = [regions EXCEPT ![k] = a.r]

\* mremap made in the current state
Remap(old_address, old_size, new_size, flags, new_address) ==
    mremap(regions, overflow_checks, errno, old_address, old_size, new_size,
           flags, new_address)

\* [a, a + len) lies in the anon region and is entirely reserved
Reserved(a, len) ==
    /\ Region_contains(Anon, a)
    /\ a + len <= Anon.max
    /\ Span(a, len) \cap FreeSet(Anon) = {}

NonFixed == {{}, {MREMAP_MAYMOVE}}

\* C22: mremap of a reserved range without MREMAP_FIXED and with
\* old_size >= new_size returns old_address, adds exactly
\* [old + new_size, old + old_size) to free_map, leaves the region lock
\* released and does not abort.
C22_ShrinkInPlace ==
    Quiet =>
      \A old \in PageAddrs(Anon), old_size \in RemapSizes,
         new_size \in RemapSizes, flags \in NonFixed :
        (Reserved(old, old_size) /\ old_size >= new_size) =>
          LET os == Remap(old, old_size, new_size, flags, 0)
          IN  /\ os # {}
              /\ \A o \in os :
                   /\ ~o.aborted
                   /\ o.ret = old
                   /\ FreeSet(o.regions[ANON]) =
                        FreeSet(Anon)
                          \cup Span(old + new_size, old_size - new_size)
                   /\ o.regions[ANON].lock

\* C23: mremap of a reserved range without MREMAP_FIXED and with
\* new_size > old_size does not abort; it returns old_address if and only
\* if [old + old_size, old + new_size) was entirely free; when that range
\* was not free and MREMAP_MAYMOVE is not set it returns MAP_FAILED with
\* errno ENOMEM and leaves free_map as it was.
C23_GrowInPlaceIffFree ==
    Quiet =>
      \A old \in PageAddrs(Anon), old_size \in RemapSizes,
         new_size \in RemapSizes, flags \in NonFixed :
        (Reserved(old, old_size) /\ new_size > old_size) =>
          LET os   == Remap(old, old_size, new_size, flags, 0)
              free == /\ old + new_size <= Anon.max
                      /\ Span(old + old_size, new_size - old_size)
                           \subseteq FreeSet(Anon)
          IN  /\ os # {}
              /\ \A o \in os :
                   /\ ~o.aborted
                   /\ (o.ret = old) <=> free
                   /\ (~free /\ MREMAP_MAYMOVE \notin flags) =>
                        /\ o.ret = MAP_FAILED
                        /\ o.errno = ENOMEM
                        /\ o.regions[ANON].free_map = Anon.free_map

Fixed == {{MREMAP_FIXED}, {MREMAP_FIXED, MREMAP_MAYMOVE}}

\* the target [new_address, new_address + new_size) is entirely free
TargetFree(new_address, new_size) ==
    Span(new_address, new_size) \subseteq FreeSet(Anon)

\* C24: mremap with MREMAP_FIXED and a target inside the region does not
\* abort; when the target is entirely free it returns new_address and
\* removes exactly the target from free_map; when the target is not free
\* it returns MAP_FAILED with errno EEXIST.
C24_FixedTargetTakenOrEexist ==
    Quiet =>
      \A old \in PageAddrs(Anon), old_size \in RemapSizes,
         new_size \in RemapSizes, flags \in Fixed,
         new_address \in PageAddrs(Anon) :
        (Reserved(old, old_size) /\ new_address + new_size <= Anon.max) =>
          LET os == Remap(old, old_size, new_size, flags, new_address)
          IN  /\ os # {}
              /\ \A o \in os :
                   /\ ~o.aborted
                   /\ TargetFree(new_address, new_size) =>
                        /\ o.ret = new_address
                        /\ FreeSet(o.regions[ANON]) =
                             FreeSet(Anon) \ Span(new_address, new_size)
                   /\ ~TargetFree(new_address, new_size) =>
                        /\ o.ret = MAP_FAILED
                        /\ o.errno = EEXIST

\* the reservation the relocating path of mremap makes for a request req
Relocation(req, new_size) ==
    alloc_range(Anon, req, new_size, {MAP_ANONYMOUS, MAP_PRIVATE},
                overflow_checks)

\* C25: a relocating mremap that succeeds returns the base address of the
\* range of new_size bytes that alloc_range reserved for it: under
\* MREMAP_FIXED every successful outcome does; under MREMAP_MAYMOVE, when
\* the range cannot grow in place and a first-fit range of new_size bytes
\* exists, the call falls through with req = 0 and returns that range's
\* base.
C25_RelocationReturnsReservedBase ==
    Quiet =>
      \A old \in PageAddrs(Anon), old_size \in RemapSizes,
         new_size \in RemapSizes :
        Reserved(old, old_size) =>
          /\ \A flags \in Fixed, new_address \in PageAddrs(Anon) :
               new_address + new_size <= Anon.max =>
                 LET a == Relocation(new_address, new_size)
                 IN  \A o \in Remap(old, old_size, new_size, flags,
                                     new_address) :
                       Succeeded(o, MAP_FAILED) =>
                         /\ o.ret = a.ret
                         /\ o.regions[ANON] = a.r
          /\ LET a == Relocation(0, new_size)
                 grows_in_place ==
                     /\ old + new_size <= Anon.max
                     /\ Span(old + old_size, new_size - old_size)
                          \subseteq FreeSet(Anon)
             IN  (/\ new_size > old_size
                  /\ ~grows_in_place
                  /\ ~a.panic
                  /\ a.ret # USIZE_MAX) =>
                   LET os == Remap(old, old_size, new_size,
                                   {MREMAP_MAYMOVE}, 0)
                   IN  /\ os # {}
                       /\ \A o \in os :
                            /\ Succeeded(o, MAP_FAILED)
                            /\ o.ret = a.ret

\* Allocator::new has returned
Built == boot.built /\ ~aborted

\* the regions are placed: Region::init has run on each
AllPlaced == \A k \in AllocType : regions[k].free_map # <<>>

\* [start, max) of region r shares a byte with mapping m
Overlaps(r, m) == r.start < m.end /\ m.start < r.max

\* C26: once the bootstrap has returned with the three regions placed,
\* whatever the memory map was, the regions lie in the order heap,
\* anon, file without overlap, each starts at a multiple of its max_pgsz,
\* the heap starts at or above the initial program break, and no region
\* shares an address with a mapping of the scanned memory map.
C26_RegionsPlacedInFreeGaps ==
    (Built /\ AllPlaced) =>
      /\ Heap.max <= Anon.start
      /\ Anon.max <= File.start
      /\ \A k \in AllocType : regions[k].start % regions[k].max_pgsz = 0
      /\ Heap.start >= boot.initial_brk
      /\ \A k \in AllocType : \A i \in 1..Len(boot.maps) :
           ~Overlaps(regions[k], boot.maps[i])

\* region r has been placed exactly once and nothing is reserved in it
PlacedOnce(r) ==
    /\ r.start < r.max
    /\ r.free_map = <<Range(r.start, r.max)>>
    /\ r.end = r.start

\* C27: the bootstrap returns normally only if each of the three regions
\* was placed exactly once, no later than on the line of the [stack]
\* mapping (so below the stack), and the real program break was moved to
\* heap.start; in every other case (the stack reached first, the heap not
\* placeable) it aborts.
C27_ReturnsOnlyWhenAllPlaced ==
    Built =>
      /\ \A k \in AllocType :
           /\ PlacedOnce(regions[k])
           /\ regions[k].max <= StackLine.start
      /\ boot.brk = Heap.start

\* the threads between a returned lock() and the matching unlock() on the
\* lock of region k
Holders(k) == {t \in Threads : k \in thr.holds[t]}

\* C28: for any interleaving at most one thread is between a returned
\* Region::lock() and its unlock() on the same region, no thread holds two
\* region locks at once, and a step that changes free_map or end of a
\* region is taken by a thread that is inside the section of that region.
C28_RegionLockMutualExclusion ==
    /\ [](/\ \A k \in AllocType : Cardinality(Holders(k)) <= 1
          /\ \A t \in Threads : Cardinality(thr.holds[t]) <= 1)
    /\ [][\A k \in AllocType :
            (\/ regions'[k].free_map # regions[k].free_map
             \/ regions'[k].end # regions[k].end)
            => \E t \in Holders(k) :
                  /\ thr.pc[t] = "section"
                  /\ thr'.pc[t] # "section" \/ aborted']_vars

\* one thread has changed the anon region inside its section and is about
\* to unlock while the other thread spins on the same lock
C28_Witness ==
    \E t, u \in Threads :
       /\ t # u
       /\ thr.pc[t] = "unlock"
       /\ thr.pc[u] = "lock"
       /\ LockRegion(regions, thr.call[u]) = ANON
       /\ Holders(ANON) = {t}
       /\ ~Anon.lock
       /\ Anon.free_map # <<Range(Anon.start, Anon.max)>>

\* the threads that have returned from Futex::lock() and not yet called
\* unlock()
FutexHolders == {t \in FThreads : thr.pc[t] = "locked"}

\* the threads asleep in FUTEX_WAIT
Sleepers == {t \in FThreads : thr.pc[t] = "asleep"}

\* no thread is between two steps of lock() or of unlock()
Settled == \A t \in FThreads : thr.pc[t] \in {"idle", "locked", "asleep"}

\* C29: for any interleaving at most one thread has returned from
\* Futex::lock() without yet calling unlock(); and, whenever no thread is
\* in the middle of lock() or unlock(), the word is 1 exactly when no
\* thread holds the mutex, 0 when it is held and no thread waits, -1 when
\* it is held and threads wait.
C29_FutexMutualExclusion ==
    /\ Cardinality(FutexHolders) <= 1
    /\ Settled =>
         /\ thr.futex = 1 <=> FutexHolders = {}
         /\ (FutexHolders # {} /\ Sleepers = {}) => thr.futex = 0
         /\ (FutexHolders # {} /\ Sleepers # {}) => thr.futex = -1

\* thread t has called lock() and lock() has not returned
InLock(t) == thr.pc[t] \in {"store", "wait", "asleep", "woken"}

\* a thread sleeps in FUTEX_WAIT while no thread holds the mutex, no thread
\* is inside unlock() and no woken thread is still to return
LostWakeup ==
    /\ Sleepers # {}
    /\ \A t \in FThreads : thr.pc[t] \in {"idle", "asleep", "store", "wait"}

\* C30: under fair scheduling, with every holder eventually calling
\* unlock(), every thread that has called lock() eventually returns from
\* it, and no thread is ever left asleep in FUTEX_WAIT while the mutex is
\* free and no wake is pending.
C30_FutexLiveness ==
    /\ \A t \in FThreads : InLock(t) ~> (thr.pc[t] = "locked")
    /\ []~LostWakeup

----------------------------------------------------------------------------
(* C31..C40 *)

\* the intervals of the rows of the file that belong to the anon pool
AnonRows ==
    LET mine == SelectSeq(boot.csv, LAMBDA rec : rec.region_type = "mmap")
    IN  {Interval_from(mine[i]).interval : i \in 1..Len(mine)}

\* two intervals share a byte
IntervalsOverlap(a, b) == a.start < b.end /\ b.start < a.end

\* C31: Pool::from_csv aborts whenever two intervals of the type overlap,
\* whichever two they are, and a pool that is constructed has its intervals
\* sorted by start and pairwise non-overlapping.
C31_PoolRejectsOverlap ==
    Built =>
      /\ \A i, j \in 1..Len(boot.intervals) :
            i < j => /\ boot.intervals[i].start <= boot.intervals[j].start
                     /\ ~IntervalsOverlap(boot.intervals[i], boot.intervals[j])
      /\ \A a, b \in AnonRows : a # b => ~IntervalsOverlap(a, b)

\* C32: whenever alloc_range with MAP_FIXED returns hint, no page of
\* [hint, hint + len) is in free_map afterwards, whatever the range was
\* before (free, reserved, or partly each), and no later allocation
\* without a hint is handed an address inside that range.
C32_FixedReturnLeavesNothingFree ==
    Idle =>
      \A hint \in Hints, len \in Lens :
        hint + len <= Anon.max =>
          LET alen == align_up(len, PAGE_SIZE)
              a    == Alloc(hint, len, {MAP_FIXED})
          IN  (~a.panic /\ a.ret = hint) =>
                /\ Span(hint, alen) \cap FreeSet(a.r) = {}
                /\ \A len2 \in Lens :
                     LET b == alloc_range(a.r, 0, len2, {}, overflow_checks)
                     IN  (~b.panic /\ b.ret # USIZE_MAX) =>
                           Span(b.ret, align_up(len2, PAGE_SIZE))
                             \cap Span(hint, alen) = {}

\* the high-water mark of the anon region when the pages ps are reserved
HighWater(ps) ==
    IF ps = {} THEN Anon.start
    ELSE (CHOOSE a \in ps : \A b \in ps : b <= a) + PAGE_SIZE

\* C33: whenever the lock of the placed region is not held, end is the end
\* of the highest reserved range, or start when nothing is reserved, and
\* start <= end <= max; free_range of a reserved range retracts end exactly
\* when that range was the topmost reserved one, to the new high-water mark.
C33_EndIsHighWaterMark ==
    Idle =>
      /\ Anon.start <= Anon.end /\ Anon.end <= Anon.max
      /\ Anon.end = HighWater(held)
      /\ \A addr \in Hints, len \in ALens :
           Span(addr, len) \subseteq held =>
             LET r == free_range(Anon, addr, len)
             IN  /\ r.end = HighWater(held \ Span(addr, len))
                 /\ r.end # Anon.end <=> addr + len = HighWater(held)

\* the cursor of the backing scan at its i-th iteration, for a range that
\* starts at start and tiles ts requested so far
Cursor(start, ts, i) ==
    IF i = 1 THEN start ELSE ts[i - 1].addr + ts[i - 1].pagesz

\* the scan that requested ts for [start, start + alen) ended after at most
\* one iteration per base page, its cursor grew at every iteration although
\* each tile starts at or below the cursor, and the tiles cover the range
ScanCovers(start, alen, ts) ==
    /\ Len(ts) <= alen \div PAGE_SIZE
    /\ \A i \in 1..Len(ts) :
         /\ ts[i].addr <= Cursor(start, ts, i)
         /\ Cursor(start, ts, i + 1) > Cursor(start, ts, i)
    /\ \A p \in Span(start, alen) : \E i \in 1..Len(ts) : p \in TilePages(ts[i])

\* the calls alloc_range is given on the anon region
TileCalls ==
    {c \in [addr : {0} \cup Hints, len : Lens,
            flags : {{}, {MAP_FIXED}, {MAP_FIXED_NOREPLACE}}] :
        c.addr = 0 \/ c.addr + c.len <= Anon.max}

\* C34: for every successful non-file alloc_range returning addr
\* the backing scan terminates, its cursor strictly increasing, and the
\* tiles it requests cover [addr, addr + page-rounded len).
C34_EverySuccessIsBacked ==
    Idle =>
      \A c \in TileCalls :
        LET a == Alloc(c.addr, c.len, c.flags)
        IN  (~a.panic /\ a.ret # USIZE_MAX) =>
              ScanCovers(a.ret, align_up(c.len, PAGE_SIZE),
                         alloc_range_tiles(Anon, c.addr, c.len, c.flags,
                                           overflow_checks))

\* C35: every interposed call that acquires a region lock releases it
\* before it ends, on every path: a lock is held only by a thread that is
\* inside a call which goes on to unlock(), and whenever no call is in
\* progress every region lock is free.
C35_EveryCallReleasesItsLock ==
    /\ \A t \in Threads :
         thr.holds[t] # {} =>
           ~aborted /\ thr.pc[t] \in {"section", "unlock"}
    /\ (\A t \in Threads : thr.pc[t] = "idle") =>
         \A k \in AllocType : regions[k].lock

\* C36: for any interleaving of mmap calls without MAP_FIXED on one
\* region and of munmap calls on ranges mmap returned, the ranges returned
\* and not yet unmapped are pairwise disjoint and lie in the region, and
\* at most one thread at a time is between lock() and unlock(), where the
\* free-map update and the backing of a call take place.
C36_ConcurrentMmapsAreDisjoint ==
    /\ \A g, h \in held :
         g # h => Span(g.addr, g.len) \cap Span(h.addr, h.len) = {}
    /\ \A h \in held : Span(h.addr, h.len) \subseteq PageAddrs(Anon)
    /\ Cardinality(Holders(ANON)) <= 1

\* what a failed call must leave as it was: free_map and end of every
\* region
SameReservations(rs) ==
    \A k \in AllocType :
       /\ rs[k].free_map = regions[k].free_map
       /\ rs[k].end = regions[k].end

\* C37: whenever an interposed mmap or mremap returns MAP_FAILED to the
\* caller, free_map and end of every region are the same as before the
\* call (the real mmap of the file region failing after the reservation
\* and an MREMAP_FIXED request not honoured at its address included).
C37_FailedCallReservesNothing ==
    Quiet =>
      /\ \A addr \in FileAddrs \cup PageAddrs(Anon), len \in FileLens,
            flags \in FlagSets, fd \in Fds :
           \A o \in mmap(regions, drained, overflow_checks, errno,
                          addr, len, flags, fd) :
              (~o.aborted /\ o.ret = MAP_FAILED) => SameReservations(o.regions)
      /\ \A old \in PageAddrs(Anon), old_size \in RemapSizes,
            new_size \in RemapSizes, flags \in RemapFlagSets,
            new_address \in {0} \cup PageAddrs(Anon) :
           \A o \in mremap(regions, overflow_checks, errno, old, old_size,
                            new_size, flags, new_address) :
              (~o.aborted /\ o.ret = MAP_FAILED) => SameReservations(o.regions)

\* C38: the drain terminates and is a one-way gate: once drain() has been
\* called the malloc loop ends and drained becomes true; drained becomes
\* true with errno cleared; drained is true only when bootstrap has placed
\* all three regions; and drained never returns to false.
C38_DrainTerminatesOneWay ==
    /\ (thr.pc = "malloc") ~> drained
    /\ [][(~drained /\ drained') => errno' = NOERR]_vars
    /\ [](drained => \A k \in AllocType : PlacedOnce(regions[k]))
    /\ [][drained => drained']_vars

\* blocks of the arena handed out and not given back
ArenaBlocks == {b \in held : b.size < MMAP_THRESHOLD}

BlockSpan(b) == b.ptr .. (b.ptr + b.size - 1)

\* an arena request fits when the aligned watermark plus its size stays
\* within the arena
Fits(size, algn) == align_up(thr.idx, algn) + size <= ARENA_SIZE

\* C39: in every interleaving of alloc, dealloc and realloc with sizes
\* below 4 KiB the watermark stays within [0, ARENA_SIZE], every block
\* handed out lies inside the arena at its alignment, no two live blocks
\* overlap, dealloc lowers the watermark by the block size exactly when
\* the block ends at the watermark, and a request with alignment above
\* 4096 or that does not fit returns null with the watermark unchanged
\* (for realloc: the old block is not copied through the null pointer).
C39_ArenaBlocksDisjointInBounds ==
    /\ thr.idx \in 0..ARENA_SIZE
    /\ \A b \in ArenaBlocks :
         /\ arena <= b.ptr /\ b.ptr + b.size <= arena + ARENA_SIZE
         /\ b.ptr % b.algn = 0
    /\ \A b, c \in ArenaBlocks : b # c => BlockSpan(b) \cap BlockSpan(c) = {}
    /\ \A b \in ArenaBlocks :
         dealloc(thr.idx, b.ptr, b.size).idx =
           IF b.ptr + b.size = arena + thr.idx THEN thr.idx - b.size
           ELSE thr.idx
    /\ \A size \in {n \in ArenaSizes : n < MMAP_THRESHOLD},
          algn \in ArenaAligns, zero \in BOOLEAN :
         (algn > MAX_SUPPORTED_ALIGN \/ ~Fits(size, algn)) =>
           alloc_helper(thr.idx, size, algn, zero, Unused) =
             {[ptr |-> null, idx |-> thr.idx, calls |-> {}]}
    /\ \A t \in Threads :
         (/\ thr.pc[t] = "move"
          /\ thr.req[t].block.size < MMAP_THRESHOLD
          /\ thr.req[t].new_size < MMAP_THRESHOLD) =>
           \A a \in alloc_helper(thr.idx, thr.req[t].new_size,
                                 thr.req[t].block.algn, FALSE, Unused) :
              a.ptr # null

\* C40: no operation of the internal allocator enters an interposed entry
\* point: every kernel request it has made went through real!(f), none
\* through an exported symbol that preload_hooks.rs hooks.
C40_AllocatorNeverEntersHooks ==
    \A c \in thr.calls : ~(c.via = "symbol" /\ c.fn \in HookedSymbols)

====
